---- MODULE Spec2Model ----
(***************************************************************************)
(* The alert monitoring engine of PijAlarmBot: the task registry           *)
(* (start_alarm_task / stop_alarm_task), the per-alert monitor coroutines  *)
(* (price_alert_monitor, rsi_alert_monitor), the startup reload            *)
(* (post_init), the delete handler and the streaming client's connection   *)
(* state, as an asyncio program: every action is one run of a coroutine    *)
(* from one suspension point (await) to the next.                          *)
(***************************************************************************)
EXTENDS Integers, FiniteSets, Sequences, TLC

\* ------------------------------------------------------------ bounds
MaxAlerts == 3
MaxTasks == 2
MaxPrice == 3
MaxMsgs == 2
MaxTrig == 2
MaxPing == 2
MaxFail == 2
MaxCandles == 3
MaxUsers == 2

\* The largest max_retries and initial_delay a wrapper is made with.
MaxRetries == 3

MaxDelay == 2

\* Python's None (dict.get / fetchone default).
None == -1

AlertIds == 1..MaxAlerts
TaskIds == 1..MaxTasks
\* A market price is positive; an RSI value and its threshold lie in 0..MaxPrice.
Prices == 1..MaxPrice
Targets == 1..MaxPrice
RsiValues == 0..MaxPrice
MsgIds == 1..MaxMsgs
Pairs == {"BTCUSDT", "ETHUSDT"}

VARIABLES
    alerts,              \* the alerts table: id -> row
    ACTIVE_ALARM_TASKS,  \* config.ACTIVE_ALARM_TASKS: alert id -> task handle
    tasks,               \* asyncio tasks made by start_alarm_task: handle -> task
    LATEST_PRICES,       \* config.LATEST_PRICES: pair -> last price
    chat,                \* the trigger messages that exist in the user's chat
    next_message_id,     \* the id the chat transport gives the next sent message
    deleting,            \* trigger messages a delete handler still has to delete
    websocket,           \* ws_client.websocket is set
    subscriptions,       \* ws_client.subscriptions
    subscribe_tasks,     \* pairs with a spawned _subscribe task not yet run
    booted,              \* post_init has run
    client,              \* ws_client.run: where it is, and what it has sent
    conversation,        \* the ConversationHandler: each user's state and user_data
    retry                \* one call of a function wrapped by retry_on_network_error

vars == << alerts, ACTIVE_ALARM_TASKS, tasks, LATEST_PRICES, chat, next_message_id,
           deleting, websocket, subscriptions, subscribe_tasks, booted, client,
           conversation, retry >>

\* ------------------------------------------------------------ the alert store
\* A row of the alerts table, as the monitors read it: they take the threshold of
\* either kind from the price column. The rows the specifications start from
\* belong to the first user.
AlertRow(type, target, cond, active) ==
    [ alert_type |-> type, pair |-> "BTCUSDT", price |-> target,
      rsi_condition |-> cond, trigger_count |-> 0, last_message_id |-> None,
      is_active |-> active, user_id |-> 1, rsi_threshold |-> None ]

AlertRows ==
    { AlertRow("alert_price", p, "none", act) : p \in Targets, act \in BOOLEAN }
    \cup { AlertRow("alert_rsi", p, c, act) :
             p \in Targets, c \in {"above", "below"}, act \in BOOLEAN }

\* An id of the alerts table that no row has been given yet.
AbsentRow == AlertRow("none", 1, "none", FALSE)

\* "WHERE user_id = ? AND id = ? AND is_active = ?": the row the query selects.
Selects(tbl, user, a, active) ==
    /\ tbl[a] # AbsentRow
    /\ tbl[a].user_id = user
    /\ tbl[a].is_active = active

\* get_alert_by_id: the active row of the user, or no row (fetchone gives None).
get_alert_by_id(tbl, user, a) ==
    IF Selects(tbl, user, a, TRUE) THEN tbl[a] ELSE AbsentRow

\* get_user_alerts: the active rows of the user, by id.
get_user_alerts(tbl, user) == { a \in AlertIds : Selects(tbl, user, a, TRUE) }

\* get_alert_count: "SELECT COUNT(*) ... WHERE user_id = ? AND is_active = 1".
get_alert_count(tbl, user) == Cardinality({ a \in AlertIds : Selects(tbl, user, a, TRUE) })

\* The UPDATE of a soft delete or a restore: "SET is_active = ? WHERE user_id = ?
\* AND id = ?".
SetActive(tbl, user, a, active) ==
    [b \in AlertIds |->
        IF b = a /\ tbl[b] # AbsentRow /\ tbl[b].user_id = user
        THEN [tbl[b] EXCEPT !.is_active = active] ELSE tbl[b]]

\* A soft delete that does not ask whose alert it is.
delete_user_alert_any(tbl, user, a) ==
    IF tbl[a] # AbsentRow /\ tbl[a].is_active
    THEN [success |-> TRUE, alerts |-> [tbl EXCEPT ![a].is_active = FALSE]]
    ELSE [success |-> FALSE, alerts |-> tbl]

\* delete_user_alert: fails when the user has no such active alert, else marks it
\* inactive.
delete_user_alert(tbl, user, a) ==
    IF ~Selects(tbl, user, a, TRUE)
    THEN [success |-> FALSE, alerts |-> tbl]
    ELSE [success |-> TRUE, alerts |-> SetActive(tbl, user, a, FALSE)]

\* A restore that gives the alert back as a new one.
restore_user_alert_reset(tbl, user, a) ==
    IF ~Selects(tbl, user, a, FALSE)
    THEN [success |-> FALSE, alerts |-> tbl]
    ELSE [success |-> TRUE,
          alerts |-> [tbl EXCEPT ![a].is_active = TRUE, ![a].trigger_count = 0,
                                 ![a].last_message_id = None]]

\* restore_user_alert: fails when the user has no such inactive alert, else marks
\* it active.
restore_user_alert(tbl, user, a) ==
    IF ~Selects(tbl, user, a, FALSE)
    THEN [success |-> FALSE, alerts |-> tbl]
    ELSE [success |-> TRUE, alerts |-> SetActive(tbl, user, a, TRUE)]

\* A monitor that trusts the row it was started with.
NoLongerActiveNever(a) == FALSE

\* db.get_alert_by_id returns the row when it is active and None otherwise:
\* "not current_alert_state or not current_alert_state['is_active']".
NoLongerActive(a) == ~alerts[a].is_active

\* db.get_all_active_alerts: the ids of the active rows.
get_all_active_alerts == { a \in AlertIds : alerts[a].is_active }

\* db.update_alert_trigger_info: count the trigger and store the message id.
update_alert_trigger_info(tbl, a, message_id) ==
    [tbl EXCEPT ![a].trigger_count = @ + 1, ![a].last_message_id = message_id]

\* db.update_alert_field(alert_id, "is_active", 0)
update_alert_field_inactive(tbl, a) == [tbl EXCEPT ![a].is_active = FALSE]

\* ------------------------------------------------------------ tasks
\* A task handle. pc is where the coroutine is suspended: "new" (created, not yet
\* run), "sleep" (asyncio.sleep), "edit" / "send" (awaiting the chat transport),
\* "cancelling" (cancelled with a send in flight), "done". The last six fields
\* record history: the last price a cycle read as data, the cached price the task
\* started from (kept until its second cycle), the chat calls of the current
\* trigger event, why it ended, and what the last cycle fetched and computed.
NotFetched == [status |-> "no", prices |-> << >>, rsi |-> None]

FreeTask ==
    [ alert |-> None, kind |-> "none", pc |-> "free", last_price |-> None,
      current_price |-> None, last_message_id |-> None,
      rsi_condition |-> "none", rsi_threshold |-> None,
      observed |-> None, seed |-> None, n_edit |-> 0, n_send |-> 0,
      ended |-> "no", fetched |-> NotFetched, target_price |-> None ]

\* asyncio.create_task(price_alert_monitor(application, alert_data))
NewPriceTask(a) == [FreeTask EXCEPT !.alert = a, !.kind = "alert_price", !.pc = "new"]

\* asyncio.create_task(rsi_alert_monitor(application, alert_data)): the coroutine
\* keeps the condition and the threshold of the alert_data it was given.
NewRsiTask(a, row) ==
    [FreeTask EXCEPT !.alert = a, !.kind = "alert_rsi", !.pc = "new",
                     !.rsi_condition = row.rsi_condition, !.rsi_threshold = row.price]

\* A task that has ended (returned, or cancelled at its await).
Finished(task, why) ==
    [FreeTask EXCEPT !.alert = task.alert, !.kind = task.kind, !.pc = "done",
                     !.ended = why]

\* task.cancel(): the task never runs again. One that waits for send_message to
\* return has its request in flight: whether the message still arrives is open.
Cancel(task) ==
    IF task.pc = "send"
    THEN [Finished(task, "cancelled") EXCEPT !.pc = "cancelling"]
    ELSE Finished(task, "cancelled")

Running(t) == tasks[t].pc \in {"new", "sleep", "edit", "send"}

FreeHandles(ts) == { t \in TaskIds : ts[t].pc = "free" }

NextHandle(ts) == CHOOSE t \in FreeHandles(ts) : \A u \in FreeHandles(ts) : t <= u

\* ------------------------------------------------------------ the supervisor
\* A stop that empties the whole registry (ACTIVE_ALARM_TASKS.clear()).
StopRegistryClear(reg, a) == [b \in AlertIds |-> None]

\* A stop that cancels the task and leaves its registry entry.
StopRegistryKeep(reg, a) == reg

\* A stop that pops the entry and does not cancel the task.
StopTasksNoCancel(ts, reg, a) == ts

\* A stop that cancels every task that is running.
StopTasksAll(ts, reg, a) ==
    [u \in TaskIds |->
        IF ts[u].pc \in {"new", "sleep", "edit", "send"} THEN Cancel(ts[u]) ELSE ts[u]]

\* stop_alarm_task: pop the registry entry and cancel the task it held.
StopRegistry(reg, a) == [reg EXCEPT ![a] = None]

StopTasks(ts, reg, a) == IF reg[a] = None THEN ts ELSE [ts EXCEPT ![reg[a]] = Cancel(@)]

\* A client that records a pair only when it can request it at once.
AddSubscriptionLiveOnly(subs, ps) == subs

\* ws_client.add_subscription
AddSubscription(subs, ps) == IF websocket THEN subs ELSE subs \cup ps

AddSubscribeTasks(st, subs, ps) == IF websocket THEN st \cup (ps \ subs) ELSE st

Supported(row) == row.alert_type \in {"alert_price", "alert_rsi"}

\* start_alarm_task(application, alert_data): create the monitor task of the
\* alert's type and register it under the alert's id.
StartTasks(ts, a, alert_data) ==
    IF ~Supported(alert_data) THEN ts
    ELSE [ts EXCEPT ![NextHandle(ts)] =
             IF alert_data.alert_type = "alert_price"
             THEN NewPriceTask(a) ELSE NewRsiTask(a, alert_data)]

\* A supervisor that creates the task and forgets to register it.
StartRegistryNone(reg, ts, a, alert_data) == reg

StartRegistry(reg, ts, a, alert_data) ==
    IF ~Supported(alert_data) THEN reg ELSE [reg EXCEPT ![a] = NextHandle(ts)]

StartPairs(alert_data) ==
    IF alert_data.alert_type = "alert_price" THEN {alert_data.pair} ELSE {}

\* A caller hands an active alert's row to start_alarm_task.
StartCall(a) ==
    /\ booted
    /\ alerts[a].is_active
    /\ FreeHandles(tasks) # {}
    /\ tasks' = StartTasks(tasks, a, alerts[a])
    /\ ACTIVE_ALARM_TASKS' = StartRegistry(ACTIVE_ALARM_TASKS, tasks, a, alerts[a])
    /\ subscriptions' = AddSubscription(subscriptions, StartPairs(alerts[a]))
    /\ subscribe_tasks' =
          AddSubscribeTasks(subscribe_tasks, subscriptions, StartPairs(alerts[a]))
    /\ UNCHANGED << alerts, LATEST_PRICES, chat, next_message_id, deleting, websocket, booted >>
    /\ UNCHANGED << client, conversation, retry >>

\* A caller calls stop_alarm_task(alert_id).
StopCall(a) ==
    /\ booted
    /\ ACTIVE_ALARM_TASKS' = StopRegistry(ACTIVE_ALARM_TASKS, a)
    /\ tasks' = StopTasks(tasks, ACTIVE_ALARM_TASKS, a)
    /\ UNCHANGED << alerts, LATEST_PRICES, chat, next_message_id, deleting, websocket,
                    subscriptions, subscribe_tasks, booted >>
    /\ UNCHANGED << client, conversation, retry >>

\* A reload that stops after the first alert it starts.
ReloadFirstOnly(S, st) ==
    IF S = {} THEN st
    ELSE LET a == CHOOSE x \in S : \A y \in S : x <= y
         IN  [ ts |-> StartTasks(st.ts, a, alerts[a]),
               reg |-> StartRegistry(st.reg, st.ts, a, alerts[a]) ]

\* post_init: queue the pairs of the active price alerts, then start a task for
\* every active alert. start_alarm_task never suspends, so the reload is one step.
RECURSIVE Reload(_, _)
Reload(S, st) ==
    IF S = {} THEN st
    ELSE LET a == CHOOSE x \in S : \A y \in S : x <= y
         IN  Reload(S \ {a}, [ ts |-> StartTasks(st.ts, a, alerts[a]),
                               reg |-> StartRegistry(st.reg, st.ts, a, alerts[a]) ])

PostInit ==
    /\ ~booted
    /\ LET active_alerts == get_all_active_alerts
           price_alert_pairs ==
               { alerts[a].pair :
                   a \in { b \in active_alerts : alerts[b].alert_type = "alert_price" } }
           st == Reload(active_alerts, [ts |-> tasks, reg |-> ACTIVE_ALARM_TASKS])
       IN  /\ Cardinality(active_alerts) <= Cardinality(FreeHandles(tasks))
           /\ tasks' = st.ts
           /\ ACTIVE_ALARM_TASKS' = st.reg
           /\ subscriptions' = AddSubscription(subscriptions, price_alert_pairs)
           /\ subscribe_tasks' =
                 AddSubscribeTasks(subscribe_tasks, subscriptions, price_alert_pairs)
    /\ booted' = TRUE
    /\ UNCHANGED << alerts, LATEST_PRICES, chat, next_message_id, deleting, websocket >>
    /\ UNCHANGED << client, conversation, retry >>

\* ------------------------------------------------------------ the monitors
\* A monitor that logs the error and goes on with its loop.
SelfStopContinue(t, why) ==
    /\ tasks' = [tasks EXCEPT ![t].pc = "sleep"]
    /\ UNCHANGED ACTIVE_ALARM_TASKS

\* A monitor that breaks without calling stop_alarm_task.
SelfStopNoPop(t, why) ==
    /\ tasks' = [tasks EXCEPT ![t] = Finished(tasks[t], why)]
    /\ UNCHANGED ACTIVE_ALARM_TASKS

\* A monitor stops itself: stop_alarm_task(alert_id), then break.
SelfStop(t, why) ==
    LET a == tasks[t].alert
    IN  /\ ACTIVE_ALARM_TASKS' = StopRegistry(ACTIVE_ALARM_TASKS, a)
        /\ tasks' = [StopTasks(tasks, ACTIVE_ALARM_TASKS, a) EXCEPT
                        ![t] = Finished(tasks[t], why)]

\* "if current_price:", "if last_message_id:"
Truthy(x) == x # None /\ x # 0

\* A crossing test that leaves the boundary out.
CrossesExclusive(last_price, target_price, current_price) ==
    \/ last_price < target_price /\ current_price > target_price
    \/ last_price > target_price /\ current_price < target_price

\* The crossing test of price_alert_monitor.
Crosses(last_price, target_price, current_price) ==
    \/ last_price < target_price /\ current_price >= target_price
    \/ last_price > target_price /\ current_price <= target_price

PriceTriggered(last_price, target_price, current_price) ==
    last_price # None /\ Crosses(last_price, target_price, current_price)

\* A monitor that starts from 0 instead of the cached price.
LastPriceZero(t) == IF tasks[t].pc = "new" THEN 0 ELSE tasks[t].last_price

\* The price a price monitor compares with: a task that has not run yet reads the
\* cache as its first statement, in the same run as its first cycle.
LastPrice(t) ==
    IF tasks[t].pc = "new" THEN LATEST_PRICES[alerts[tasks[t].alert].pair]
    ELSE tasks[t].last_price

\* A dispatcher that always sends.
FirstActionSend(last_message_id) == "send"

\* The first chat call of a trigger: edit the recorded message, or send.
FirstAction(last_message_id) == IF Truthy(last_message_id) THEN "edit" ELSE "send"

\* A dispatcher that keeps the reference it already had.
message_id_to_save_stale(new_message, last_message_id) ==
    IF last_message_id # None THEN last_message_id ELSE new_message

\* "new_message.message_id if new_message else last_message_id"
message_id_to_save(new_message, last_message_id) ==
    IF new_message # None THEN new_message ELSE last_message_id

\* A monitor that keeps the price it started from as its previous price.
NextLastPriceKeep(last_price, current_price) == last_price

\* "last_price = current_price", the last statement of a cycle before its sleep.
NextLastPrice(last_price, current_price) == current_price

\* One cycle of price_alert_monitor, up to its next await.
PriceCycle(t) ==
    /\ tasks[t].kind = "alert_price"
    /\ tasks[t].pc \in {"new", "sleep"}
    /\ LET a == tasks[t].alert
           current_alert_state == alerts[a]
           last_price == LastPrice(t)
           current_price == LATEST_PRICES[alerts[a].pair]
           seed == IF tasks[t].pc = "new" THEN last_price ELSE None
       IN  IF NoLongerActive(a)
           THEN /\ SelfStop(t, "inactive")
                /\ UNCHANGED alerts
           ELSE /\ UNCHANGED << ACTIVE_ALARM_TASKS, alerts >>
                /\ IF ~Truthy(current_price)
                   THEN tasks' = [tasks EXCEPT ![t].pc = "sleep",
                                               ![t].last_price = last_price,
                                               ![t].seed = seed,
                                ![t].target_price = current_alert_state.price,
                                               ![t].n_edit = 0, ![t].n_send = 0]
                   ELSE IF PriceTriggered(last_price, current_alert_state.price,
                                          current_price)
                   THEN /\ current_alert_state.trigger_count < MaxTrig
                        /\ tasks' =
                             [tasks EXCEPT
                                ![t].pc = FirstAction(current_alert_state.last_message_id),
                                ![t].last_price = last_price,
                                ![t].current_price = current_price,
                                ![t].last_message_id =
                                    current_alert_state.last_message_id,
                                ![t].observed = current_price,
                                ![t].seed = seed,
                                ![t].target_price = current_alert_state.price,
                                ![t].n_edit =
                                    IF FirstAction(current_alert_state.last_message_id)
                                         = "edit" THEN 1 ELSE 0,
                                ![t].n_send =
                                    IF FirstAction(current_alert_state.last_message_id)
                                         = "send" THEN 1 ELSE 0]
                   ELSE tasks' = [tasks EXCEPT ![t].pc = "sleep",
                                               ![t].last_price = NextLastPrice(last_price, current_price),
                                               ![t].observed = current_price,
                                               ![t].seed = seed,
                                ![t].target_price = current_alert_state.price,
                                               ![t].n_edit = 0, ![t].n_send = 0]
    /\ UNCHANGED << LATEST_PRICES, chat, next_message_id, deleting, websocket,
                    subscriptions, subscribe_tasks, booted >>
    /\ UNCHANGED << client, conversation, retry >>

\* float("nan"), the quotient 0 / 0 of calculate_rsi.
NaN == -3

\* A level test that takes the threshold itself as reached.
RsiTriggeredInclusive(rsi_condition, current_rsi, rsi_threshold) ==
    /\ current_rsi # NaN
    /\ \/ rsi_condition = "above" /\ current_rsi >= rsi_threshold
       \/ rsi_condition = "below" /\ current_rsi <= rsi_threshold

\* The level test of rsi_alert_monitor. Every comparison with NaN is false.
RsiTriggered(rsi_condition, current_rsi, rsi_threshold) ==
    /\ current_rsi # NaN
    /\ \/ rsi_condition = "above" /\ current_rsi > rsi_threshold
       \/ rsi_condition = "below" /\ current_rsi < rsi_threshold

\* One cycle of rsi_alert_monitor, up to its next await. current_rsi is what
\* calculate_rsi made of the fetched candles, None when there is no value;
\* fetched is the record of the fetch, kept as history.
RsiStep(t, current_rsi, fetched) ==
    /\ tasks[t].kind = "alert_rsi"
    /\ tasks[t].pc \in {"new", "sleep"}
    /\ LET a == tasks[t].alert
       IN  IF NoLongerActive(a)
           THEN /\ SelfStop(t, "inactive")
                /\ UNCHANGED alerts
           ELSE /\ UNCHANGED ACTIVE_ALARM_TASKS
                /\ IF /\ current_rsi # None
                      /\ RsiTriggered(tasks[t].rsi_condition, current_rsi,
                                      tasks[t].rsi_threshold)
                   THEN /\ alerts' = update_alert_field_inactive(alerts, a)
                        /\ tasks' = [tasks EXCEPT ![t].pc = "send", ![t].n_send = 1,
                                                  ![t].fetched = fetched]
                   ELSE /\ tasks' = [tasks EXCEPT ![t].pc = "sleep",
                                                  ![t].fetched = fetched]
                        /\ UNCHANGED alerts
    /\ UNCHANGED << LATEST_PRICES, chat, next_message_id, deleting, websocket,
                    subscriptions, subscribe_tasks, booted >>
    /\ UNCHANGED << client, conversation, retry >>

\* The cycle seen from the value it computed.
RsiCycle(t, current_rsi) == RsiStep(t, current_rsi, NotFetched)

\* ------------------------------------------------------------ market data
\* get_kline_data behind retry_on_network_error, and calculate_rsi. A response
\* is the list of candles of its "data": a candle is its closing price, a
\* candle too short to have one (ShortCandle), or one whose closing price
\* float() rejects (BadCandle).
max_retries == 3

\* alert_data["rsi_period"]. With this period and these closing prices the
\* index is a whole number.
RsiPeriod == 2

Closes == {1, 2}

ShortCandle == 0

BadCandle == -2

Candles == Closes \cup {ShortCandle, BadCandle}

Responses == UNION { [1..n -> Candles] : n \in 0..MaxCandles }

\* The body of get_kline_data on a response: the comprehension passes over the
\* candles that are too short and raises on a closing price it cannot convert.
closing_prices(response) ==
    IF \E i \in 1..Len(response) : response[i] = BadCandle
    THEN [status |-> "raised", prices |-> << >>]
    ELSE [status |-> "list", prices |-> SelectSeq(response, LAMBDA c : c # ShortCandle)]

\* sync_wrapper: the first `errors` attempts raise a RequestException, the next
\* one gets the response; after max_retries failed attempts the result is None.
RECURSIVE sync_wrapper(_, _, _)
sync_wrapper(attempt, errors, response) ==
    IF attempt >= max_retries THEN [status |-> "none", prices |-> << >>]
    ELSE IF attempt < errors
         THEN IF attempt = max_retries - 1
              THEN [status |-> "none", prices |-> << >>]
              ELSE sync_wrapper(attempt + 1, errors, response)
         ELSE closing_prices(response)

get_kline_data(errors, response) == sync_wrapper(0, errors, response)

\* What one attempt of the wrapped function does: it returns, or it raises a
\* requests RequestException, a telegram NetworkError or another exception.
Outcomes == {"returns", "RequestException", "NetworkError", "other"}

\* No wrapped call is being followed.
NoCall == [pc |-> "idle", wrapper |-> "none", max_retries |-> 0, initial_delay |-> 0,
           attempt |-> 0, delay |-> 0, calls |-> 0, slept |-> << >>,
           last |-> "none", result |-> "none"]

\* A wrapper that retries on every exception.
CaughtAll(wrapper, outcome) == outcome # "returns"

\* The except clauses of the wrappers: async_wrapper catches RequestException
\* and NetworkError, sync_wrapper catches RequestException.
Caught(wrapper, outcome) ==
    IF wrapper = "async_wrapper" THEN outcome \in {"RequestException", "NetworkError"}
    ELSE outcome = "RequestException"

\* A backoff that keeps the first delay.
NextDelaySame(delay) == delay

\* delay *= 2
NextDelay(delay) == delay * 2

\* A loop that makes one attempt more.
AttemptsLeftOneMore(call) == call.attempt <= call.max_retries

\* for attempt in range(max_retries)
AttemptsLeft(call) == call.attempt < call.max_retries

\* The wrapper is entered: delay = initial_delay, and the loop starts, or falls
\* through to "return None" when range(max_retries) is empty.
EnterWrapper(wrapper, retries, initial) ==
    LET call == [NoCall EXCEPT !.wrapper = wrapper, !.max_retries = retries,
                               !.initial_delay = initial, !.delay = initial]
    IN  IF AttemptsLeft(call) THEN [call EXCEPT !.pc = "call"]
        ELSE [call EXCEPT !.pc = "done", !.result = "None"]

RetryFrame ==
    UNCHANGED << alerts, ACTIVE_ALARM_TASKS, tasks, LATEST_PRICES, chat, next_message_id,
                 deleting, websocket, subscriptions, subscribe_tasks, booted, client,
                 conversation >>

\* One attempt: "return func(*args, **kwargs)" returns the function's result; an
\* exception the wrapper catches ends the call with None on the last attempt and
\* leads to the pause otherwise; any other exception leaves the wrapper.
Attempt(outcome) ==
    /\ retry.pc = "call"
    /\ retry' =
          LET called == [retry EXCEPT !.calls = @ + 1, !.last = outcome]
          IN  IF outcome = "returns"
              THEN [called EXCEPT !.pc = "done", !.result = "value"]
              ELSE IF ~Caught(retry.wrapper, outcome)
              THEN [called EXCEPT !.pc = "done", !.result = "raised"]
              ELSE IF retry.attempt = retry.max_retries - 1
              THEN [called EXCEPT !.pc = "done", !.result = "None"]
              ELSE [called EXCEPT !.pc = "sleep"]
    /\ RetryFrame

\* time.sleep(delay) / await asyncio.sleep(delay) ends: the delay doubles and the
\* loop goes to its next attempt, or falls through to "return None".
Pause ==
    /\ retry.pc = "sleep"
    /\ retry' =
          LET next == [retry EXCEPT !.slept = Append(@, retry.delay),
                                    !.delay = NextDelay(retry.delay),
                                    !.attempt = @ + 1]
          IN  IF AttemptsLeft(next) THEN [next EXCEPT !.pc = "call"]
              ELSE [next EXCEPT !.pc = "done", !.result = "None"]
    /\ RetryFrame

\* delta.where(delta > 0, 0) and -delta.where(delta < 0, 0), summed over the
\* last `period` rows; the first row of diff() has no value and counts as 0.
RECURSIVE gain(_, _, _)
gain(prices, from, to) ==
    IF from > to THEN 0
    ELSE (IF from > 1 /\ prices[from] > prices[from - 1]
          THEN prices[from] - prices[from - 1] ELSE 0) + gain(prices, from + 1, to)

RECURSIVE loss(_, _, _)
loss(prices, from, to) ==
    IF from > to THEN 0
    ELSE (IF from > 1 /\ prices[from] < prices[from - 1]
          THEN prices[from - 1] - prices[from] ELSE 0) + loss(prices, from + 1, to)

\* calculate_rsi: None below `period` prices; else 100 - 100 / (1 + rs) with
\* rs = gain / loss of the last window, which is 100 * gain / (gain + loss),
\* 100 when only loss is 0, and NaN when gain and loss are both 0.
calculate_rsi(prices, period) ==
    IF Len(prices) < period THEN None
    ELSE LET n == Len(prices)
             g == gain(prices, n - period + 1, n)
             l == loss(prices, n - period + 1, n)
         IN  IF g = 0 /\ l = 0 THEN NaN ELSE (100 * g) \div (g + l)

\* One cycle of rsi_alert_monitor from the HTTP exchange on: the fetch, the
\* computation and the level test; an exception of the fetch takes the task to
\* its handler, which stops it.
RsiFetchCycle(t, errors, response) ==
    /\ tasks[t].kind = "alert_rsi"
    /\ tasks[t].pc \in {"new", "sleep"}
    /\ LET data == get_kline_data(errors, response)
           current_rsi == IF data.status = "list" /\ data.prices # << >>
                          THEN calculate_rsi(data.prices, RsiPeriod)
                          ELSE None
       IN  IF ~NoLongerActive(tasks[t].alert) /\ data.status = "raised"
           THEN /\ SelfStop(t, "error")
                /\ UNCHANGED << alerts, LATEST_PRICES, chat, next_message_id, deleting,
                                websocket, subscriptions, subscribe_tasks, booted,
                                client, conversation, retry >>
           ELSE RsiStep(t, current_rsi,
                        [status |-> data.status, prices |-> data.prices,
                         rsi |-> current_rsi])

\* ------------------------------------------------------------ delivery
\* What edit_message_text can answer: done when the message exists, "message to
\* edit not found" when it does not, or any other error.
EditOutcomes(message_id) ==
    IF message_id \in chat THEN {"ok", "error"} ELSE {"not_found", "error"}

\* price_alert_monitor resumes from "await application.bot.edit_message_text".
EditDone(t, outcome) ==
    /\ tasks[t].pc = "edit"
    /\ outcome \in EditOutcomes(tasks[t].last_message_id)
    /\ LET a == tasks[t].alert
       IN  CASE outcome = "ok" ->
                  /\ alerts[a].trigger_count < MaxTrig
                  /\ alerts' = update_alert_trigger_info(alerts, a,
                                   message_id_to_save(None, tasks[t].last_message_id))
                  /\ tasks' = [tasks EXCEPT ![t].pc = "sleep",
                                            ![t].last_price =
                                                NextLastPrice(tasks[t].last_price, tasks[t].current_price),
                                            ![t].current_price = None,
                                            ![t].last_message_id = None]
                  /\ UNCHANGED ACTIVE_ALARM_TASKS
             [] outcome = "not_found" ->
                  /\ tasks' = [tasks EXCEPT ![t].pc = "send", ![t].n_send = @ + 1]
                  /\ UNCHANGED << alerts, ACTIVE_ALARM_TASKS >>
             [] OTHER ->
                  /\ SelfStop(t, "error")
                  /\ UNCHANGED alerts
    /\ UNCHANGED << LATEST_PRICES, chat, next_message_id, deleting, websocket,
                    subscriptions, subscribe_tasks, booted >>
    /\ UNCHANGED << client, conversation, retry >>

\* A monitor resumes from "await application.bot.send_message".
SendDone(t, outcome) ==
    /\ tasks[t].pc = "send"
    /\ outcome \in {"ok", "error"}
    /\ LET a == tasks[t].alert
       IN  IF outcome = "ok"
           THEN /\ next_message_id <= MaxMsgs
                /\ chat' = chat \cup {next_message_id}
                /\ next_message_id' = next_message_id + 1
                /\ IF tasks[t].kind = "alert_price"
                   THEN /\ alerts[a].trigger_count < MaxTrig
                        /\ alerts' = update_alert_trigger_info(alerts, a,
                                         message_id_to_save(next_message_id,
                                                            tasks[t].last_message_id))
                        /\ tasks' = [tasks EXCEPT ![t].pc = "sleep",
                                                  ![t].last_price =
                                                      NextLastPrice(tasks[t].last_price, tasks[t].current_price),
                                                  ![t].current_price = None,
                                                  ![t].last_message_id = None]
                        /\ UNCHANGED ACTIVE_ALARM_TASKS
                   ELSE /\ SelfStop(t, "fired")
                        /\ UNCHANGED alerts
           ELSE /\ SelfStop(t, "error")
                /\ UNCHANGED << alerts, chat, next_message_id >>
    /\ UNCHANGED << LATEST_PRICES, deleting, websocket, subscriptions, subscribe_tasks,
                    booted >>
    /\ UNCHANGED << client, conversation, retry >>

\* The request of a task cancelled inside send_message reaches the chat or not.
CancelledSend(t, delivered) ==
    /\ tasks[t].pc = "cancelling"
    /\ tasks' = [tasks EXCEPT ![t].pc = "done"]
    /\ IF delivered
       THEN /\ next_message_id <= MaxMsgs
            /\ chat' = chat \cup {next_message_id}
            /\ next_message_id' = next_message_id + 1
       ELSE UNCHANGED << chat, next_message_id >>
    /\ UNCHANGED << alerts, ACTIVE_ALARM_TASKS, LATEST_PRICES, deleting, websocket,
                    subscriptions, subscribe_tasks, booted >>
    /\ UNCHANGED << client, conversation, retry >>

\* ------------------------------------------------------------ the delete flow
\* delete_confirmation_handler up to its first await after the store call: read
\* the user's alert, stop the task registered under the id, soft-delete the row.
DeleteAndStop(user, a) ==
    /\ booted
    /\ LET alert_data == get_alert_by_id(alerts, user, a)
           deleted == delete_user_alert(alerts, user, a)
       IN  /\ ACTIVE_ALARM_TASKS' = StopRegistry(ACTIVE_ALARM_TASKS, a)
           /\ tasks' = StopTasks(tasks, ACTIVE_ALARM_TASKS, a)
           /\ alerts' = deleted.alerts
           /\ deleting' = IF /\ deleted.success
                             /\ alert_data # AbsentRow
                             /\ Truthy(alert_data.last_message_id)
                          THEN deleting \cup {alert_data.last_message_id}
                          ELSE deleting
    /\ UNCHANGED << LATEST_PRICES, chat, next_message_id, websocket, subscriptions,
                    subscribe_tasks, booted, client, retry >>

\* The delete flow of the user the stored alerts belong to.
DeleteConfirmation(a) == DeleteAndStop(1, a) /\ UNCHANGED << conversation, retry >>

\* update_get_value_handler up to its first await after start_alarm_task, for an
\* alert the user has just been shown: store the new price, stop the task, read
\* the alert again and, when it is still there, start a task with the new row.
UpdateAndRestart(a, new_value) ==
    /\ booted
    /\ alerts[a].is_active
    /\ LET updated == [alerts EXCEPT ![a].price = new_value]
           stopped_tasks == StopTasks(tasks, ACTIVE_ALARM_TASKS, a)
           stopped_registry == StopRegistry(ACTIVE_ALARM_TASKS, a)
       IN  /\ alerts' = updated
           /\ IF updated[a].is_active
              THEN /\ FreeHandles(stopped_tasks) # {}
                   /\ tasks' = StartTasks(stopped_tasks, a, updated[a])
                   /\ ACTIVE_ALARM_TASKS' =
                         StartRegistry(stopped_registry, stopped_tasks, a, updated[a])
                   /\ subscriptions' =
                         AddSubscription(subscriptions, StartPairs(updated[a]))
                   /\ subscribe_tasks' =
                         AddSubscribeTasks(subscribe_tasks, subscriptions,
                                           StartPairs(updated[a]))
              ELSE /\ tasks' = stopped_tasks
                   /\ ACTIVE_ALARM_TASKS' = stopped_registry
                   /\ UNCHANGED << subscriptions, subscribe_tasks >>
    /\ UNCHANGED << LATEST_PRICES, chat, next_message_id, deleting, websocket, booted,
                    client, retry >>

\* The update flow taken as one step.
UpdateAlert(a, new_value) == UpdateAndRestart(a, new_value) /\ UNCHANGED << conversation, retry >>

\* delete_confirmation_handler, after its "await edit_message": delete_message.
DeleteTriggerMessage(m) ==
    /\ m \in deleting
    /\ deleting' = deleting \ {m}
    /\ chat' = chat \ {m}
    /\ UNCHANGED << alerts, ACTIVE_ALARM_TASKS, tasks, LATEST_PRICES, next_message_id,
                    websocket, subscriptions, subscribe_tasks, booted >>
    /\ UNCHANGED << client, conversation, retry >>

\* The user deletes a trigger message in the chat.
UserDeletesMessage(m) ==
    /\ m \in chat
    /\ chat' = chat \ {m}
    /\ UNCHANGED << alerts, ACTIVE_ALARM_TASKS, tasks, LATEST_PRICES, next_message_id,
                    deleting, websocket, subscriptions, subscribe_tasks, booted >>
    /\ UNCHANGED << client, conversation, retry >>

\* ------------------------------------------------------------ the create flow
\* db.save_alert gives the new row the next id of the table.
NextAlertId(tbl) ==
    CHOOSE a \in AlertIds :
        /\ tbl[a] = AbsentRow
        /\ \A b \in AlertIds : tbl[b] = AbsentRow => a <= b

\* save_alert_handler up to its first await: save the row, read it back and
\* start its task.
SaveAndStart(row) ==
    /\ booted
    /\ row.is_active
    /\ \E a \in AlertIds : alerts[a] = AbsentRow
    /\ FreeHandles(tasks) # {}
    /\ LET alert_id == NextAlertId(alerts)
       IN  /\ alerts' = [alerts EXCEPT ![alert_id] = row]
           /\ tasks' = StartTasks(tasks, alert_id, row)
           /\ ACTIVE_ALARM_TASKS' = StartRegistry(ACTIVE_ALARM_TASKS, tasks, alert_id, row)
           /\ subscriptions' = AddSubscription(subscriptions, StartPairs(row))
           /\ subscribe_tasks' =
                 AddSubscribeTasks(subscribe_tasks, subscriptions, StartPairs(row))
    /\ UNCHANGED << LATEST_PRICES, chat, next_message_id, deleting, websocket, booted,
                    client, retry >>

\* The creation flow seen from the row it saves.
SaveAlert(row) == SaveAndStart(row) /\ UNCHANGED << conversation, retry >>

\* ------------------------------------------------------------ store changes
\* The store is changed behind the supervisor's back: delete_all_user_alerts
\* soft-deletes every active alert of the user and touches no task.
DeleteAllUserAlerts ==
    /\ booted
    /\ get_all_active_alerts # {}
    /\ alerts' = [a \in AlertIds |-> [alerts[a] EXCEPT !.is_active = FALSE]]
    /\ UNCHANGED << ACTIVE_ALARM_TASKS, tasks, LATEST_PRICES, chat, next_message_id,
                    deleting, websocket, subscriptions, subscribe_tasks, booted >>
    /\ UNCHANGED << client, conversation, retry >>

\* db.update_alert_field(alert_id, "price", new_value) on its own: the threshold
\* of an active alert changes in the store and its task is left running.
UpdateAlertField(a, new_value) ==
    /\ booted
    /\ alerts[a].is_active
    /\ alerts[a].price # new_value
    /\ alerts' = [alerts EXCEPT ![a].price = new_value]
    /\ UNCHANGED << ACTIVE_ALARM_TASKS, tasks, LATEST_PRICES, chat, next_message_id,
                    deleting, websocket, subscriptions, subscribe_tasks, booted >>
    /\ UNCHANGED << client, conversation, retry >>

\* ------------------------------------------------------------ the streaming client
\* BitunixWSClient.run: the connection is made.
WsConnect ==
    /\ ~websocket
    /\ websocket' = TRUE
    /\ UNCHANGED << alerts, ACTIVE_ALARM_TASKS, tasks, LATEST_PRICES, chat,
                    next_message_id, deleting, subscriptions, subscribe_tasks, booted >>
    /\ UNCHANGED << client, conversation, retry >>

\* BitunixWSClient.run: the connection is lost ("finally: self.websocket = None").
WsDisconnect ==
    /\ websocket
    /\ websocket' = FALSE
    /\ UNCHANGED << alerts, ACTIVE_ALARM_TASKS, tasks, LATEST_PRICES, chat,
                    next_message_id, deleting, subscriptions, subscribe_tasks, booted >>
    /\ UNCHANGED << client, conversation, retry >>

\* BitunixWSClient._subscribe, spawned by add_subscription on a live connection.
SubscribeTask(p) ==
    /\ p \in subscribe_tasks
    /\ subscribe_tasks' = subscribe_tasks \ {p}
    /\ subscriptions' = subscriptions \cup {p}
    /\ UNCHANGED << alerts, ACTIVE_ALARM_TASKS, tasks, LATEST_PRICES, chat,
                    next_message_id, deleting, websocket, booted >>
    /\ UNCHANGED << client, conversation, retry >>

\* BitunixWSClient._process_message: a ticker of a subscribed pair.
WsTicker(p, price) ==
    /\ websocket
    /\ p \in subscriptions
    /\ LATEST_PRICES' = [LATEST_PRICES EXCEPT ![p] = price]
    /\ UNCHANGED << alerts, ACTIVE_ALARM_TASKS, tasks, chat, next_message_id, deleting,
                    websocket, subscriptions, subscribe_tasks, booted >>
    /\ UNCHANGED << client, conversation, retry >>

\* ------------------------------------------------------------ the client's run loop
\* BitunixWSClient.run step by step. client.pc is where run is suspended:
\* "connecting" (websockets.connect), "replay" (sending the subscribe requests of
\* the pairs it found in the set), "reading" (waiting for a message), "backoff"
\* (asyncio.sleep(10)). client.snapshot is list(self.subscriptions) as taken on
\* connection, client.replay the part of it still to send, client.requested the
\* pairs requested on the live connection, client.last_sent the last message
\* sent on it, client.failures the failed attempts in a row (MaxFail: or more).
PingValues == 1..MaxPing

NoMessage == [op |-> "none", pair |-> "", pong |-> None]

NewClient ==
    [ pc |-> "connecting", replay |-> {}, snapshot |-> {}, requested |-> {},
      last_sent |-> NoMessage, failures |-> 0 ]

\* The inbound messages: text that is not JSON, or an object with or without a
\* ping, an "op" of subscribe, and a table whose data list has one ticker entry
\* with or without a symbol ("" when it has none) and a price, followed or not
\* by an entry the handler cannot read (bad_entry: not an object, or a price
\* float() rejects). Fields that are absent have one value here, a subscribe
\* confirmation carries no ticker, and the tickers of a message with a ping
\* have their symbol and no unreadable entry.
Message(json, ping, op, table, symbol, lastPrice, bad_entry) ==
    [ json |-> json, ping |-> ping, op |-> op, table |-> table, symbol |-> symbol,
      lastPrice |-> lastPrice, bad_entry |-> bad_entry ]

Messages ==
    { Message(FALSE, None, "none", "none", "", None, FALSE) }
    \cup { Message(TRUE, ping, op, "none", "", None, FALSE) :
             ping \in PingValues \cup {None}, op \in {"subscribe", "none"} }
    \cup { Message(TRUE, None, "none", "tickers", symbol, lastPrice, bad_entry) :
             symbol \in Pairs \cup {""}, lastPrice \in Prices \cup {None},
             bad_entry \in BOOLEAN }
    \cup { Message(TRUE, ping, "none", "tickers", symbol, lastPrice, FALSE) :
             ping \in PingValues, symbol \in Pairs, lastPrice \in Prices \cup {None} }

\* The messages in which "ping" in data holds.
Pings ==
    { Message(TRUE, ping, op, "none", "", None, FALSE) :
        ping \in PingValues, op \in {"subscribe", "none"} }
    \cup { Message(TRUE, ping, "none", "tickers", symbol, lastPrice, FALSE) :
             ping \in PingValues, symbol \in Pairs, lastPrice \in Prices \cup {None} }

\* {"op": "subscribe", "args": ["tickers.<pair>"]}
SubscribeMessage(pair) == [op |-> "subscribe", pair |-> pair, pong |-> None]

\* _process_message: what it sends in answer, a pong that echoes the ping.
Reply(msg) ==
    IF msg.json /\ msg.ping # None
    THEN [op |-> "pong", pair |-> "", pong |-> msg.ping]
    ELSE NoMessage

\* A handler that answers the ping and goes on to the ticker fields.
CacheAfterPong(prices, msg) ==
    IF /\ msg.json
       /\ msg.op # "subscribe"
       /\ msg.table = "tickers"
       /\ msg.symbol # ""
       /\ Truthy(msg.lastPrice)
    THEN [prices EXCEPT ![msg.symbol] = msg.lastPrice]
    ELSE prices

\* A handler that stores whatever the ticker entry holds.
CacheUnchecked(prices, msg) ==
    IF /\ msg.json
       /\ msg.ping = None
       /\ msg.op # "subscribe"
       /\ msg.table = "tickers"
       /\ msg.symbol # ""
    THEN [prices EXCEPT ![msg.symbol] = msg.lastPrice]
    ELSE prices

\* _process_message: the price cache after the message. "if pair and price"
\* guards the write; an entry it cannot read raises after the entries before
\* it were stored.
Cache(prices, msg) ==
    IF /\ msg.json
       /\ msg.ping = None
       /\ msg.op # "subscribe"
       /\ msg.table = "tickers"
       /\ msg.symbol # ""
       /\ Truthy(msg.lastPrice)
    THEN [prices EXCEPT ![msg.symbol] = msg.lastPrice]
    ELSE prices

\* _process_message: the messages that take it into "except Exception" (the
\* decode error of a text that is not JSON has its own handler).
Raises(msg) ==
    /\ msg.json
    /\ msg.ping = None
    /\ msg.op # "subscribe"
    /\ msg.table = "tickers"
    /\ msg.bad_entry

\* "finally: self.websocket = None", then the pause.
Disconnected(c, failed) ==
    [c EXCEPT !.pc = "backoff", !.replay = {}, !.snapshot = {}, !.requested = {},
              !.last_sent = NoMessage,
              !.failures = IF failed /\ @ < MaxFail THEN @ + 1 ELSE @]

\* A client that gives up after MaxFail failed attempts in a row.
AfterBackoffGiveUp(failures) == IF failures >= MaxFail THEN "stopped" ELSE "connecting"

\* "while self.is_running": what run does when the pause is over.
AfterBackoff(failures) == "connecting"

\* A client that starts reading at once and requests nothing again.
ReplayListEmpty(subs) == {}

\* "for pair in list(self.subscriptions)": the pairs the replay goes through.
ReplayList(subs) == subs

\* websockets.connect returns: the handle is set and the replay begins.
ClientConnected ==
    /\ client.pc = "connecting"
    /\ websocket' = TRUE
    /\ client' = [client EXCEPT
                     !.pc = IF ReplayList(subscriptions) = {} THEN "reading" ELSE "replay",
                     !.replay = ReplayList(subscriptions), !.snapshot = subscriptions,
                     !.requested = {}, !.last_sent = NoMessage, !.failures = 0]
    /\ UNCHANGED << alerts, ACTIVE_ALARM_TASKS, tasks, LATEST_PRICES, chat,
                    next_message_id, deleting, subscriptions, subscribe_tasks, booted >>
    /\ UNCHANGED << conversation, retry >>

\* websockets.connect raises (refused, timed out, or anything else).
ClientConnectFails ==
    /\ client.pc = "connecting"
    /\ websocket' = FALSE
    /\ client' = Disconnected(client, TRUE)
    /\ UNCHANGED << alerts, ACTIVE_ALARM_TASKS, tasks, LATEST_PRICES, chat,
                    next_message_id, deleting, subscriptions, subscribe_tasks, booted >>
    /\ UNCHANGED << conversation, retry >>

\* One "await self._subscribe(pair)" of the replay: the request is sent, or the
\* send raises because the connection is gone.
ClientReplay(p, sent) ==
    /\ client.pc = "replay"
    /\ p \in client.replay
    /\ subscriptions' = subscriptions \cup {p}
    /\ IF sent
       THEN /\ client' = [client EXCEPT
                             !.pc = IF client.replay = {p} THEN "reading" ELSE "replay",
                             !.replay = @ \ {p}, !.requested = @ \cup {p},
                             !.last_sent = SubscribeMessage(p)]
            /\ UNCHANGED websocket
       ELSE /\ client' = Disconnected(client, TRUE)
            /\ websocket' = FALSE
    /\ UNCHANGED << alerts, ACTIVE_ALARM_TASKS, tasks, LATEST_PRICES, chat,
                    next_message_id, deleting, subscribe_tasks, booted >>
    /\ UNCHANGED << conversation, retry >>

\* One turn of "async for message in self.websocket": _process_message(message).
\* The server sends tickers of the pairs requested on this connection; sent
\* tells whether the pong went out or its send raised (and was logged).
ClientRead(msg, sent) ==
    /\ client.pc = "reading"
    /\ Reply(msg) = NoMessage => sent
    /\ (msg.json /\ msg.table = "tickers") => msg.symbol \in client.requested \cup {""}
    /\ LATEST_PRICES' = Cache(LATEST_PRICES, msg)
    /\ client' = IF Reply(msg) # NoMessage /\ sent
                 THEN [client EXCEPT !.last_sent = Reply(msg)]
                 ELSE client
    /\ UNCHANGED << alerts, ACTIVE_ALARM_TASKS, tasks, chat, next_message_id, deleting,
                    websocket, subscriptions, subscribe_tasks, booted >>
    /\ UNCHANGED << conversation, retry >>

\* The connection closes or breaks while run waits for a message.
ClientClosed ==
    /\ client.pc = "reading"
    /\ websocket' = FALSE
    /\ client' = Disconnected(client, FALSE)
    /\ UNCHANGED << alerts, ACTIVE_ALARM_TASKS, tasks, LATEST_PRICES, chat,
                    next_message_id, deleting, subscriptions, subscribe_tasks, booted >>
    /\ UNCHANGED << conversation, retry >>

\* asyncio.sleep(10) is over: the loop goes round.
ClientBackoffDone ==
    /\ client.pc = "backoff"
    /\ client' = [client EXCEPT !.pc = AfterBackoff(client.failures)]
    /\ UNCHANGED << alerts, ACTIVE_ALARM_TASKS, tasks, LATEST_PRICES, chat,
                    next_message_id, deleting, websocket, subscriptions,
                    subscribe_tasks, booted >>
    /\ UNCHANGED << conversation, retry >>

\* ws_client.add_subscription(pair), as start_alarm_task and post_init call it.
AddSubscriptionCall(p) ==
    /\ subscriptions' = AddSubscription(subscriptions, {p})
    /\ subscribe_tasks' = AddSubscribeTasks(subscribe_tasks, subscriptions, {p})
    /\ UNCHANGED << alerts, ACTIVE_ALARM_TASKS, tasks, LATEST_PRICES, chat,
                    next_message_id, deleting, websocket, booted, client >>
    /\ UNCHANGED << conversation, retry >>

\* The _subscribe task that add_subscription spawned runs: the pair joins the
\* set and, when the handle is set, the request is sent (or the send raises).
ClientSubscribeTask(p, sent) ==
    /\ p \in subscribe_tasks
    /\ subscribe_tasks' = subscribe_tasks \ {p}
    /\ subscriptions' = subscriptions \cup {p}
    /\ client' = IF websocket /\ sent
                 THEN [client EXCEPT !.requested = @ \cup {p},
                                     !.last_sent = SubscribeMessage(p)]
                 ELSE client
    /\ UNCHANGED << alerts, ACTIVE_ALARM_TASKS, tasks, LATEST_PRICES, chat,
                    next_message_id, deleting, websocket, booted >>
    /\ UNCHANGED << conversation, retry >>

\* ------------------------------------------------------------ the conversations
\* Telegram users: the first is in config.ALLOWED_USERS, the others are not.
Users == 1..MaxUsers

ALLOWED_USERS == {1}

\* context.user_data of a user before the creation flow has stored anything.
NoUserData ==
    [ alert_type |-> "none", pair |-> "", price |-> None,
      rsi_condition |-> "none", rsi_threshold |-> None ]

\* No handler is running (the application handles one update at a time).
NoHandler == [name |-> "none", user |-> None, alert |-> None]

\* ConversationHandler.END: the user is in no state of the conversation.
END == "END"

NewConversation ==
    [ state |-> [u \in Users |-> END],
      user_data |-> [u \in Users |-> NoUserData],
      handler |-> NoHandler ]

\* The users converse one at a time, each from an entry point to the end of the
\* conversation, and no handler is running.
MayEnter(u) ==
    /\ conversation.handler = NoHandler
    /\ \A v \in Users : conversation.state[v] = END

\* A handler of the conversation runs for user u in state st.
InState(u, st) ==
    /\ conversation.handler = NoHandler
    /\ conversation.state[u] = st

Goto(u, st) == [conversation EXCEPT !.state[u] = st]

\* The variables a handler that only talks to the user leaves alone.
HandlerFrame ==
    UNCHANGED << alerts, ACTIVE_ALARM_TASKS, tasks, LATEST_PRICES, chat, next_message_id,
                 deleting, websocket, subscriptions, subscribe_tasks, booted, client, retry >>

\* start: "is_allowed = user.id in config.ALLOWED_USERS"; a user who is not
\* allowed is told so and the conversation ends.
StartState(user) == IF user \in ALLOWED_USERS THEN "MAIN_MENU" ELSE END

\* /start, or the "back_to_main" button.
start(u) ==
    /\ booted
    /\ MayEnter(u)
    /\ conversation' = Goto(u, StartState(u))
    /\ HandlerFrame

\* /new_alarm: the keyboard of alert types is sent.
new_alarm_command(u) ==
    /\ booted
    /\ MayEnter(u)
    /\ conversation' = Goto(u, "ALERT_TYPE")
    /\ HandlerFrame

\* /list_alarms: the user's active alerts, or the end when there is none.
list_alarms_command(u) ==
    /\ booted
    /\ MayEnter(u)
    /\ conversation' = Goto(u, IF get_user_alerts(alerts, u) = {} THEN END
                                ELSE "VIEW_ALERT")
    /\ HandlerFrame

\* main_menu_handler: "new_alert" or "view_alerts".
main_menu_handler(u, data) ==
    /\ InState(u, "MAIN_MENU")
    /\ data \in {"new_alert", "view_alerts"}
    /\ conversation' =
          Goto(u, IF data = "new_alert" THEN "ALERT_TYPE"
                  ELSE IF get_user_alerts(alerts, u) = {} THEN "MAIN_MENU"
                  ELSE "VIEW_ALERT")
    /\ HandlerFrame

\* alert_type_handler: the pattern lets "alert_price" and "alert_rsi" through.
alert_type_handler(u, data) ==
    /\ InState(u, "ALERT_TYPE")
    /\ data \in {"alert_price", "alert_rsi"}
    /\ conversation' =
          [conversation EXCEPT
             !.user_data[u].alert_type = data,
             !.state[u] = IF data = "alert_rsi" THEN "TIMEFRAME_INPUT"
                          ELSE "PAIR_INPUT"]
    /\ HandlerFrame

\* timeframe_input_handler, for a valid timeframe.
timeframe_input_handler(u) ==
    /\ InState(u, "TIMEFRAME_INPUT")
    /\ conversation' = Goto(u, "PAIR_INPUT")
    /\ HandlerFrame

\* pair_input_handler, for a valid pair.
pair_input_handler(u, pair) ==
    /\ InState(u, "PAIR_INPUT")
    /\ conversation' =
          [conversation EXCEPT
             !.user_data[u].pair = pair,
             !.state[u] = IF conversation.user_data[u].alert_type = "alert_rsi"
                          THEN "RSI_PERIOD_INPUT" ELSE "PRICE_INPUT"]
    /\ HandlerFrame

\* rsi_period_input_handler, for a period from 2 to 100.
rsi_period_input_handler(u) ==
    /\ InState(u, "RSI_PERIOD_INPUT")
    /\ conversation' = Goto(u, "RSI_CONDITION_INPUT")
    /\ HandlerFrame

\* rsi_condition_handler: "rsi_above" or "rsi_below".
rsi_condition_handler(u, cond) ==
    /\ InState(u, "RSI_CONDITION_INPUT")
    /\ cond \in {"above", "below"}
    /\ conversation' = [conversation EXCEPT !.user_data[u].rsi_condition = cond,
                                            !.state[u] = "RSI_THRESHOLD_INPUT"]
    /\ HandlerFrame

\* rsi_threshold_input_handler: 'context.user_data["price"] = 0'.
rsi_threshold_price(threshold) == 0

\* rsi_threshold_input_handler, for a threshold from 0 to 100.
rsi_threshold_input_handler(u, threshold) ==
    /\ InState(u, "RSI_THRESHOLD_INPUT")
    /\ conversation' =
          [conversation EXCEPT !.user_data[u].rsi_threshold = threshold,
                               !.user_data[u].price = rsi_threshold_price(threshold),
                               !.state[u] = "DESCRIPTION_INPUT"]
    /\ HandlerFrame

\* price_input_handler, for a number.
price_input_handler(u, price) ==
    /\ InState(u, "PRICE_INPUT")
    /\ conversation' = [conversation EXCEPT !.user_data[u].price = price,
                                            !.state[u] = "DESCRIPTION_INPUT"]
    /\ HandlerFrame

\* The row db.save_alert stores for context.user_data.
NewRow(user, data) ==
    [ AlertRow(data.alert_type, data.price, data.rsi_condition, TRUE)
        EXCEPT !.pair = data.pair, !.user_id = user,
               !.rsi_threshold = data.rsi_threshold ]

\* save_alert_handler up to "await send_message": the alert is saved and its
\* task started; the handler then waits for the chat transport.
save_alert_handler(u) ==
    /\ InState(u, "DESCRIPTION_INPUT")
    /\ SaveAndStart(NewRow(u, conversation.user_data[u]))
    /\ conversation' =
          [conversation EXCEPT
             !.handler = [name |-> "save_alert_handler", user |-> u,
                          alert |-> NextAlertId(alerts)]]

\* save_alert_handler returns: user_data is cleared and the conversation ends.
save_alert_handler_returns ==
    /\ conversation.handler.name = "save_alert_handler"
    /\ conversation' =
          [conversation EXCEPT !.handler = NoHandler,
                               !.user_data[conversation.handler.user] = NoUserData,
                               !.state[conversation.handler.user] = END]
    /\ HandlerFrame

\* /cancel
cancel(u) ==
    /\ conversation.handler = NoHandler
    /\ conversation.state[u] # END
    /\ conversation' = [conversation EXCEPT !.user_data[u] = NoUserData,
                                            !.state[u] = END]
    /\ HandlerFrame

\* view_alert_details_handler: the button "alert_<id>".
view_alert_details_handler(u, a) ==
    /\ InState(u, "VIEW_ALERT")
    /\ conversation' =
          Goto(u, IF get_alert_by_id(alerts, u, a) = AbsentRow THEN "MAIN_MENU"
                  ELSE "VIEW_ALERT_DETAILS")
    /\ HandlerFrame

\* delete_confirmation_handler: a callback "delete_<id>" with any id.
delete_confirmation_handler(u, a) ==
    /\ InState(u, "VIEW_ALERT_DETAILS")
    /\ DeleteAndStop(u, a)
    /\ conversation' = Goto(u, END)

\* update_get_value_handler of the user the stored alerts belong to: after the
\* restart it awaits reply_text and start, and the tasks run meanwhile.
update_get_value_handler(a, new_value) ==
    /\ conversation.handler = NoHandler
    /\ UpdateAndRestart(a, new_value)
    /\ conversation' =
          [conversation EXCEPT !.handler =
              [name |-> "update_get_value_handler", user |-> 1, alert |-> a]]

\* update_get_value_handler returns ConversationHandler.END.
update_get_value_handler_returns ==
    /\ conversation.handler.name = "update_get_value_handler"
    /\ conversation' = [conversation EXCEPT !.handler = NoHandler]
    /\ UNCHANGED << alerts, ACTIVE_ALARM_TASKS, tasks, LATEST_PRICES, chat,
                    next_message_id, deleting, websocket, subscriptions,
                    subscribe_tasks, booted, client, retry >>

\* ------------------------------------------------------------ the system
\* The process has just started: nothing is registered, cached or connected.
InitProcess ==
    /\ ACTIVE_ALARM_TASKS = [a \in AlertIds |-> None]
    /\ tasks = [t \in TaskIds |-> FreeTask]
    /\ LATEST_PRICES = [p \in Pairs |-> None]
    /\ chat = {}
    /\ next_message_id = 1
    /\ deleting = {}
    /\ websocket = FALSE
    /\ subscriptions = {}
    /\ subscribe_tasks = {}
    /\ booted = FALSE
    /\ client = NewClient
    /\ conversation = NewConversation
    /\ retry = NoCall

Init ==
    /\ alerts \in [AlertIds -> AlertRows]
    /\ InitProcess

Next ==
    \/ PostInit
    \/ \E a \in AlertIds : StartCall(a)
    \/ \E a \in AlertIds : StopCall(a)
    \/ \E t \in TaskIds : PriceCycle(t)
    \/ \E t \in TaskIds : \E r \in RsiValues \cup {None} : RsiCycle(t, r)
    \/ \E t \in TaskIds : \E o \in {"ok", "not_found", "error"} : EditDone(t, o)
    \/ \E t \in TaskIds : \E o \in {"ok", "error"} : SendDone(t, o)
    \/ \E t \in TaskIds : \E d \in BOOLEAN : CancelledSend(t, d)
    \/ \E a \in AlertIds : DeleteConfirmation(a)
    \/ \E m \in MsgIds : DeleteTriggerMessage(m)
    \/ \E a \in AlertIds : \E v \in Targets : UpdateAlert(a, v)
    \/ \E m \in MsgIds : UserDeletesMessage(m)
    \/ WsConnect
    \/ WsDisconnect
    \/ \E p \in Pairs : SubscribeTask(p)
    \/ \E p \in Pairs : \E price \in Prices : WsTicker(p, price)

Spec == Init /\ [][Next]_vars
\* The system's own flows around one watched alert: the store holds one active
\* alert, of any type and threshold, and the other rows are soft-deleted. The
\* task is started by the reload and restarted by the update flow.
InitMonitor ==
    /\ Init
    /\ alerts[1].is_active
    /\ \A a \in AlertIds \ {1} : alerts[a] = AlertRow("alert_price", 1, "none", FALSE)

NextMonitor ==
    \/ PostInit
    \/ \E t \in TaskIds : PriceCycle(t)
    \/ \E t \in TaskIds : \E r \in RsiValues \cup {None} : RsiCycle(t, r)
    \/ \E t \in TaskIds : \E o \in {"ok", "not_found", "error"} : EditDone(t, o)
    \/ \E t \in TaskIds : \E o \in {"ok", "error"} : SendDone(t, o)
    \/ \E t \in TaskIds : \E d \in BOOLEAN : CancelledSend(t, d)
    \/ \E a \in AlertIds : DeleteConfirmation(a)
    \/ \E m \in MsgIds : DeleteTriggerMessage(m)
    \/ \E a \in AlertIds : \E v \in Targets : UpdateAlert(a, v)
    \/ \E m \in MsgIds : UserDeletesMessage(m)
    \/ WsConnect
    \/ WsDisconnect
    \/ \E p \in Pairs : SubscribeTask(p)
    \/ \E p \in Pairs : \E price \in Prices : WsTicker(p, price)

SpecMonitor == InitMonitor /\ [][NextMonitor]_vars

\* The supervisor under any sequence of start and stop calls, with the market
\* data feed down: every row has the same threshold and no price arrives.
InitSupervisor ==
    /\ Init
    /\ \A a \in AlertIds : alerts[a].price = 1

NextSupervisor ==
    \/ PostInit
    \/ \E a \in AlertIds : StartCall(a)
    \/ \E a \in AlertIds : StopCall(a)
    \/ \E t \in TaskIds : PriceCycle(t)
    \/ \E t \in TaskIds : \E r \in RsiValues \cup {None} : RsiCycle(t, r)
    \/ \E t \in TaskIds : \E o \in {"ok", "error"} : SendDone(t, o)
    \/ \E t \in TaskIds : \E d \in BOOLEAN : CancelledSend(t, d)
    \/ \E a \in AlertIds : DeleteConfirmation(a)

SpecSupervisor == InitSupervisor /\ [][NextSupervisor]_vars

\* One watched alert whose row is changed in the store while its task runs. The
\* event loop runs every task that is ready, a sleep ends, and a call of the chat
\* transport returns or raises.
NextStore ==
    \/ PostInit
    \/ \E t \in TaskIds : PriceCycle(t)
    \/ \E t \in TaskIds : \E r \in RsiValues \cup {None} : RsiCycle(t, r)
    \/ \E t \in TaskIds : \E o \in {"ok", "not_found", "error"} : EditDone(t, o)
    \/ \E t \in TaskIds : \E o \in {"ok", "error"} : SendDone(t, o)
    \/ DeleteAllUserAlerts
    \/ \E a \in AlertIds : \E v \in Targets : UpdateAlertField(a, v)
    \/ \E m \in MsgIds : UserDeletesMessage(m)
    \/ WsConnect
    \/ \E p \in Pairs : SubscribeTask(p)
    \/ \E p \in Pairs : \E price \in Prices : WsTicker(p, price)

FairStore ==
    \A t \in TaskIds :
        /\ WF_vars(PriceCycle(t))
        /\ WF_vars(\E r \in RsiValues \cup {None} : RsiCycle(t, r))
        /\ WF_vars(\E o \in {"ok", "not_found", "error"} : EditDone(t, o))
        /\ WF_vars(\E o \in {"ok", "error"} : SendDone(t, o))

SpecStore == InitMonitor /\ [][NextStore]_vars /\ FairStore

\* The system's flows on a table that grows, with the market data feed down: the
\* first id holds an alert, active or soft-deleted, the other ids have no row
\* yet; alerts are created (with the lowest threshold), updated and deleted by
\* the handlers, and the indicator monitors trigger and deliver.
NewRows == { row \in AlertRows : row.is_active /\ row.price = 1 }

InitFlows ==
    /\ alerts \in [AlertIds -> AlertRows \cup {AbsentRow}]
    /\ alerts[1] \in NewRows \cup { [row EXCEPT !.is_active = FALSE] : row \in NewRows }
    /\ \A a \in AlertIds \ {1} : alerts[a] = AbsentRow
    /\ InitProcess

NextFlows ==
    \/ PostInit
    \/ \E row \in NewRows : SaveAlert(row)
    \/ \E t \in TaskIds : PriceCycle(t)
    \/ \E t \in TaskIds : \E r \in RsiValues \cup {None} : RsiCycle(t, r)
    \/ \E t \in TaskIds : \E o \in {"ok", "error"} : SendDone(t, o)
    \/ \E t \in TaskIds : \E d \in BOOLEAN : CancelledSend(t, d)
    \/ \E a \in AlertIds : DeleteConfirmation(a)
    \/ \E a \in AlertIds : \E v \in Targets : UpdateAlert(a, v)

SpecFlows == InitFlows /\ [][NextFlows]_vars

\* One indicator alert whose monitor fetches candles over HTTP: attempts fail or
\* answer, candles are good, short or unreadable, and a trigger is delivered or
\* the delivery fails.
InitFetch ==
    /\ InitMonitor
    /\ alerts[1].alert_type = "alert_rsi"

NextFetch ==
    \/ PostInit
    \/ \E t \in TaskIds : \E errors \in 0..max_retries : \E response \in Responses :
          RsiFetchCycle(t, errors, response)
    \/ \E t \in TaskIds : \E o \in {"ok", "error"} : SendDone(t, o)

SpecFetch == InitFetch /\ [][NextFetch]_vars

\* The streaming client at work: run connects, replays, reads and reconnects
\* while one price alert is started and pairs are registered through
\* add_subscription. A pause ends, and a spawned _subscribe task gets its turn.
InitClient ==
    /\ alerts \in [AlertIds -> AlertRows \cup {AbsentRow}]
    /\ alerts[1] = AlertRow("alert_price", 1, "none", TRUE)
    /\ \A a \in AlertIds \ {1} : alerts[a] = AbsentRow
    /\ InitProcess

NextClient ==
    \/ PostInit
    \/ \E a \in AlertIds : StartCall(a)
    \/ ClientConnected
    \/ ClientConnectFails
    \/ \E p \in Pairs : \E sent \in BOOLEAN : ClientReplay(p, sent)
    \/ \E msg \in Messages : \E sent \in BOOLEAN : ClientRead(msg, sent)
    \/ ClientClosed
    \/ ClientBackoffDone
    \/ \E p \in Pairs : AddSubscriptionCall(p)
    \/ \E p \in Pairs : \E sent \in BOOLEAN : ClientSubscribeTask(p, sent)

FairClient ==
    /\ WF_vars(ClientBackoffDone)
    /\ \A p \in Pairs : WF_vars(\E sent \in BOOLEAN : ClientSubscribeTask(p, sent))

SpecClient == InitClient /\ [][NextClient]_vars /\ FairClient

\* The creation flow on a table with room for one more alert, with the market
\* data feed down: the earlier alerts are soft-deleted; users enter at /start,
\* /new_alarm or /list_alarms one after the other and create an alert of either
\* kind, and its monitor runs, triggers and delivers.
InitCreate ==
    /\ alerts = [a \in AlertIds |->
                   IF a = MaxAlerts THEN AbsentRow
                   ELSE AlertRow("alert_price", 1, "none", FALSE)]
    /\ InitProcess

NextCreate ==
    \/ PostInit
    \/ \E u \in Users : start(u)
    \/ \E u \in Users : new_alarm_command(u)
    \/ \E u \in Users : list_alarms_command(u)
    \/ \E u \in Users : \E data \in {"new_alert", "view_alerts"} : main_menu_handler(u, data)
    \/ \E u \in Users : \E data \in {"alert_price", "alert_rsi"} : alert_type_handler(u, data)
    \/ \E u \in Users : timeframe_input_handler(u)
    \/ \E u \in Users : pair_input_handler(u, "BTCUSDT")
    \/ \E u \in Users : rsi_period_input_handler(u)
    \/ \E u \in Users : \E cond \in {"above", "below"} : rsi_condition_handler(u, cond)
    \/ \E u \in Users : \E threshold \in Targets : rsi_threshold_input_handler(u, threshold)
    \/ \E u \in Users : \E price \in Targets : price_input_handler(u, price)
    \/ \E u \in Users : save_alert_handler(u)
    \/ save_alert_handler_returns
    \/ \E u \in Users : cancel(u)
    \/ \E t \in TaskIds : PriceCycle(t)
    \/ \E t \in TaskIds : \E r \in RsiValues \cup {None} : RsiCycle(t, r)
    \/ \E t \in TaskIds : \E o \in {"ok", "error"} : SendDone(t, o)

SpecCreate == InitCreate /\ [][NextCreate]_vars

\* The alert store on its own: a table of alerts of several users, some ids not
\* yet given out, on which users soft-delete and restore alerts by id.
StoredRows ==
    { [AlertRow("alert_price", 1, "none", TRUE)
          EXCEPT !.user_id = u, !.trigger_count = n,
                 !.last_message_id = IF n = 0 THEN None ELSE 1] :
        u \in Users, n \in {0, 1} }

DeleteUserAlert(u, a) ==
    /\ alerts' = delete_user_alert(alerts, u, a).alerts
    /\ UNCHANGED << ACTIVE_ALARM_TASKS, tasks, LATEST_PRICES, chat, next_message_id,
                    deleting, websocket, subscriptions, subscribe_tasks, booted, client,
                    conversation, retry >>

RestoreUserAlert(u, a) ==
    /\ alerts' = restore_user_alert(alerts, u, a).alerts
    /\ UNCHANGED << ACTIVE_ALARM_TASKS, tasks, LATEST_PRICES, chat, next_message_id,
                    deleting, websocket, subscriptions, subscribe_tasks, booted, client,
                    conversation, retry >>

InitAlertStore ==
    /\ alerts \in [AlertIds -> StoredRows \cup {AbsentRow}]
    /\ InitProcess

NextAlertStore ==
    \/ \E u \in Users : \E a \in AlertIds : DeleteUserAlert(u, a)
    \/ \E u \in Users : \E a \in AlertIds : RestoreUserAlert(u, a)

SpecAlertStore == InitAlertStore /\ [][NextAlertStore]_vars

\* The list and delete flow on a store that holds alerts of several users: the
\* first two ids are active alerts of two different users, the others are alerts
\* of any user, active or soft-deleted, or not given out yet. A user opens the
\* list, views an alert of their own and sends a delete callback with any id.
InitDelete ==
    /\ alerts \in [AlertIds -> StoredRows \cup {AbsentRow}
                                \cup { [row EXCEPT !.is_active = FALSE] : row \in StoredRows }]
    /\ \A a \in AlertIds :
          /\ alerts[a] # AbsentRow => alerts[a].trigger_count = 0
          /\ a <= 2 => alerts[a] # AbsentRow /\ alerts[a].is_active /\ alerts[a].user_id = a
    /\ InitProcess

NextDelete ==
    \/ PostInit
    \/ \E u \in Users : start(u)
    \/ \E u \in Users : list_alarms_command(u)
    \/ \E u \in Users : main_menu_handler(u, "view_alerts")
    \/ \E u \in Users : \E a \in AlertIds : view_alert_details_handler(u, a)
    \/ \E u \in Users : \E a \in AlertIds : delete_confirmation_handler(u, a)
    \/ \E u \in Users : cancel(u)
    \/ \E t \in TaskIds : PriceCycle(t)

SpecDelete == InitDelete /\ [][NextDelete]_vars

\* One call of a function wrapped by retry_on_network_error, for either wrapper
\* and any small max_retries and initial_delay (the defaults 3 and 2 included).
\* The wrapped function and the pause return, so both steps are fair.
InitRetry ==
    /\ alerts = [a \in AlertIds |-> AbsentRow]
    /\ ACTIVE_ALARM_TASKS = [a \in AlertIds |-> None]
    /\ tasks = [t \in TaskIds |-> FreeTask]
    /\ LATEST_PRICES = [p \in Pairs |-> None]
    /\ chat = {}
    /\ next_message_id = 1
    /\ deleting = {}
    /\ websocket = FALSE
    /\ subscriptions = {}
    /\ subscribe_tasks = {}
    /\ booted = FALSE
    /\ client = NewClient
    /\ conversation = NewConversation
    /\ \E wrapper \in {"sync_wrapper", "async_wrapper"} :
       \E retries \in 0..MaxRetries : \E initial \in 1..MaxDelay :
          retry = EnterWrapper(wrapper, retries, initial)

NextRetry ==
    \/ \E outcome \in Outcomes : Attempt(outcome)
    \/ Pause

SpecRetry ==
    /\ InitRetry
    /\ [][NextRetry]_vars
    /\ WF_vars(\E outcome \in Outcomes : Attempt(outcome))
    /\ WF_vars(Pause)

\* The update flow around one watched price alert, the one type the program
\* with the update flow creates: the reload starts its task, the user updates
\* the alert's price, and the tasks run while the handler is suspended in its
\* replies.
NextUpdate ==
    \/ PostInit
    \/ \E a \in AlertIds : \E v \in Targets : update_get_value_handler(a, v)
    \/ update_get_value_handler_returns
    \/ \E t \in TaskIds : PriceCycle(t)
    \/ \E t \in TaskIds : \E o \in {"ok", "not_found", "error"} : EditDone(t, o)
    \/ \E t \in TaskIds : \E o \in {"ok", "error"} : SendDone(t, o)
    \/ \E t \in TaskIds : \E d \in BOOLEAN : CancelledSend(t, d)
    \/ WsConnect
    \/ \E p \in Pairs : SubscribeTask(p)
    \/ \E p \in Pairs : \E price \in Prices : WsTicker(p, price)

InitUpdate ==
    /\ InitMonitor
    /\ alerts[1].alert_type = "alert_price"

SpecUpdate == InitUpdate /\ [][NextUpdate]_vars

\* ------------------------------------------------------------ properties
\* The claim's crossing condition on two consecutive observations.
Straddles(previous, target, current) ==
    \/ previous < target /\ target <= current
    \/ previous > target /\ target >= current

Triggers(t) == tasks'[t].pc \in {"edit", "send"}

\* C1: on every cycle in which a price monitor of an active alert reads a price,
\* it triggers if and only if it has read a price on an earlier cycle and that
\* previous price and the current one straddle the target, the boundary included
\* on the side of the current price: previous < target <= current or
\* previous > target >= current.
C1_TriggerIffCrossing ==
    [][\A t \in TaskIds :
         ( /\ PriceCycle(t)
           /\ alerts[tasks[t].alert].is_active
           /\ LATEST_PRICES[alerts[tasks[t].alert].pair] # None )
         => LET previous == tasks[t].observed
                target == alerts[tasks[t].alert].price
                current == LATEST_PRICES[alerts[tasks[t].alert].pair]
            IN  /\ Triggers(t) <=>
                     (previous # None /\ Straddles(previous, target, current))
                /\ previous = target => ~Triggers(t)
                /\ (previous # None /\ previous # target /\ current = target)
                      => Triggers(t)
                /\ tasks'[t].observed = current]_vars

\* A price monitor has triggered on a price equal to the target, coming from below.
C1_Witness ==
    \E t \in TaskIds :
        /\ tasks[t].kind = "alert_price"
        /\ tasks[t].pc \in {"edit", "send"}
        /\ tasks[t].current_price = alerts[tasks[t].alert].price
        /\ tasks[t].last_price # None
        /\ tasks[t].last_price < tasks[t].current_price

\* C2: at any time, whatever start and stop calls and self-stops came before, at
\* most one monitor task of an alert id is still running.
C2_AtMostOneTask ==
    \A a \in AlertIds :
        Cardinality({ t \in TaskIds : Running(t) /\ tasks[t].alert = a }) <= 1

\* C3: a start call for an alert whose registered task is still running is a
\* no-op: it creates no task and leaves the registered handle unchanged.
C3_SecondStartNoOp ==
    [][\A a \in AlertIds :
         ( /\ StartCall(a)
           /\ ACTIVE_ALARM_TASKS[a] # None
           /\ Running(ACTIVE_ALARM_TASKS[a]) )
         => /\ tasks' = tasks
            /\ ACTIVE_ALARM_TASKS'[a] = ACTIVE_ALARM_TASKS[a]]_vars

\* C4: a stop call for an alert id with no registered task changes no registry
\* entry and no task, and any stop call leaves no registered task for its id and
\* the registry entries of all other ids as they were.
C4_StopIdempotent ==
    [][\A a \in AlertIds :
         StopCall(a)
         => /\ ACTIVE_ALARM_TASKS'[a] = None
            /\ \A b \in AlertIds \ {a} : ACTIVE_ALARM_TASKS'[b] = ACTIVE_ALARM_TASKS[b]
            /\ ACTIVE_ALARM_TASKS[a] = None
                  => /\ ACTIVE_ALARM_TASKS' = ACTIVE_ALARM_TASKS
                     /\ tasks' = tasks]_vars

\* Stop has been called for an alert whose task was already stopped, while
\* another alert has its task registered and running.
C4_Witness ==
    \E a, b \in AlertIds :
        /\ a # b
        /\ ACTIVE_ALARM_TASKS[a] = None
        /\ \E t \in TaskIds : tasks[t].alert = a /\ tasks[t].ended = "cancelled"
        /\ ACTIVE_ALARM_TASKS[b] # None
        /\ Running(ACTIVE_ALARM_TASKS[b])

\* C5: when post_init completes, every active alert has a registered task of its
\* own that is running, no inactive alert has one, and the number of running
\* tasks is the number of active alerts.
C5_ReloadStartsActive ==
    [][PostInit
         => /\ \A a \in AlertIds :
                 IF alerts[a].is_active
                 THEN /\ ACTIVE_ALARM_TASKS'[a] # None
                      /\ tasks'[ACTIVE_ALARM_TASKS'[a]].alert = a
                      /\ tasks'[ACTIVE_ALARM_TASKS'[a]].pc = "new"
                      /\ tasks'[ACTIVE_ALARM_TASKS'[a]].kind = alerts[a].alert_type
                 ELSE /\ ACTIVE_ALARM_TASKS'[a] = None
                      /\ \A t \in TaskIds : tasks'[t].alert # a
            /\ Cardinality({ t \in TaskIds : tasks'[t].pc # "free" })
                 = Cardinality({ a \in AlertIds : alerts[a].is_active })]_vars

\* The reload has run on a store with two or more active alerts and an inactive
\* one.
C5_Witness ==
    /\ booted
    /\ Cardinality({ a \in AlertIds : alerts[a].is_active }) >= 2
    /\ \E a \in AlertIds : ~alerts[a].is_active /\ ACTIVE_ALARM_TASKS[a] = None
    /\ \A a \in AlertIds :
          alerts[a].is_active
             => ACTIVE_ALARM_TASKS[a] # None /\ tasks[ACTIVE_ALARM_TASKS[a]].pc = "new"

\* C6: the cycle in which a price monitor reads its first price never triggers,
\* whatever the cache holds when the task starts, and leaves that price as the
\* previous value of the next cycle.
C6_FirstObservationSeeds ==
    [][\A t \in TaskIds :
         ( /\ PriceCycle(t)
           /\ alerts[tasks[t].alert].is_active
           /\ tasks[t].observed = None
           /\ LATEST_PRICES[alerts[tasks[t].alert].pair] # None )
         => /\ ~Triggers(t)
            /\ tasks'[t].pc = "sleep"
            /\ tasks'[t].last_price = LATEST_PRICES[alerts[tasks[t].alert].pair]]_vars

\* A task that found a cached price past its target when it started has run its
\* first cycle and sleeps.
C6_Witness ==
    \E t \in TaskIds :
        /\ tasks[t].kind = "alert_price"
        /\ tasks[t].pc = "sleep"
        /\ tasks[t].seed # None
        /\ tasks[t].seed > alerts[tasks[t].alert].price
        /\ tasks[t].last_price = tasks[t].seed
        /\ alerts[tasks[t].alert].is_active
        /\ alerts[tasks[t].alert].trigger_count = 0

\* C7: when the edit of the recorded message is answered with "not found", the
\* monitor sends a new message, and when that send is done the store holds the
\* reference of the new message, which is not the one it held before.
C7_EditThenFallback ==
    [][\A t \in TaskIds :
         /\ EditDone(t, "not_found")
              => /\ tasks'[t].pc = "send"
                 /\ alerts' = alerts
         /\ (SendDone(t, "ok") /\ tasks[t].kind = "alert_price" /\ tasks[t].n_edit = 1)
              => /\ alerts'[tasks[t].alert].last_message_id = next_message_id
                 /\ alerts'[tasks[t].alert].last_message_id \in chat'
                 /\ alerts'[tasks[t].alert].last_message_id
                       # alerts[tasks[t].alert].last_message_id]_vars

\* A trigger has gone through a failed edit and a send, and the store holds the
\* reference of a message that exists.
C7_Witness ==
    \E t \in TaskIds :
        /\ tasks[t].pc = "sleep"
        /\ tasks[t].n_edit = 1
        /\ tasks[t].n_send = 1
        /\ alerts[tasks[t].alert].last_message_id \in chat
        /\ alerts[tasks[t].alert].trigger_count = 2

\* A trigger notification is delivered: the edit or the send is done.
Delivered(t) == EditDone(t, "ok") \/ SendDone(t, "ok")

\* C8: whenever the notification of a trigger of either kind is delivered, the
\* persisted trigger counter goes up by one and the reference of the delivered
\* message is persisted.
C8_BookkeepingOnDelivery ==
    [][\A t \in TaskIds :
         Delivered(t)
         => /\ alerts'[tasks[t].alert].trigger_count
                  = alerts[tasks[t].alert].trigger_count + 1
            /\ alerts'[tasks[t].alert].last_message_id \in chat']_vars

\* C9: when an edit or a send fails with an error other than "not found", the
\* persisted trigger counter and reference stay as they were, the monitor ends,
\* and a monitor that has ended makes no further chat call.
C9_FailureNoBookkeepingNoRetry ==
    [][\A t \in TaskIds :
         /\ (EditDone(t, "error") \/ SendDone(t, "error"))
              => /\ alerts' = alerts
                 /\ chat' = chat
                 /\ tasks'[t].pc = "done"
                 /\ \A u \in TaskIds \ {t} : tasks'[u] = tasks[u]
         /\ tasks[t].pc = "done" => tasks'[t] = tasks[t]]_vars

\* A price monitor has ended on a delivery error, with nothing persisted.
C9_Witness ==
    \E t \in TaskIds :
        /\ tasks[t].kind = "alert_price"
        /\ tasks[t].ended = "error"
        /\ alerts[tasks[t].alert].trigger_count = 0
        /\ alerts[tasks[t].alert].last_message_id = None

\* C10: a trigger on an alert with a recorded reference starts with an edit of
\* that message, and when the message exists the edit is the only chat call: no
\* message is sent and the stored reference stays; a trigger on an alert with no
\* recorded reference makes one send and no edit.
C10_OneChatAction ==
    [][\A t \in TaskIds :
         /\ (PriceCycle(t) /\ Triggers(t))
              => IF alerts[tasks[t].alert].last_message_id # None
                 THEN /\ tasks'[t].pc = "edit"
                      /\ tasks'[t].last_message_id
                            = alerts[tasks[t].alert].last_message_id
                 ELSE tasks'[t].pc = "send"
         /\ (tasks[t].last_message_id \in chat /\ \E o \in {"ok", "error"} : EditDone(t, o))
              => /\ tasks'[t].pc \in {"sleep", "done"}
                 /\ chat' = chat
                 /\ next_message_id' = next_message_id
                 /\ alerts'[tasks[t].alert].last_message_id
                       = alerts[tasks[t].alert].last_message_id
         /\ (SendDone(t, "ok") /\ tasks[t].last_message_id = None)
              => /\ tasks[t].n_edit = 0
                 /\ tasks[t].n_send = 1
                 /\ tasks'[t].pc \in {"sleep", "done"}
                 /\ chat' = chat \cup {next_message_id}]_vars

\* A trigger on an alert with a recorded reference has been delivered by an edit
\* alone, and the store still holds that reference.
C10_Witness ==
    \E t \in TaskIds :
        /\ tasks[t].pc = "sleep"
        /\ tasks[t].n_edit = 1
        /\ tasks[t].n_send = 0
        /\ alerts[tasks[t].alert].trigger_count = 2
        /\ alerts[tasks[t].alert].last_message_id \in chat

\* C11: the cycle in which an indicator monitor triggers sets the alert inactive
\* in the store; when its delivery ends, however it ends, the task is over and
\* the alert has no registry entry; and from the trigger on no task of that alert
\* id is at the start of an evaluation cycle.
C11_IndicatorOneShot ==
    [][\A t \in TaskIds :
         /\ (tasks'[t].pc = "send" /\ \E r \in RsiValues : RsiCycle(t, r))
              => ~alerts'[tasks[t].alert].is_active
         /\ (tasks[t].kind = "alert_rsi" /\ tasks[t].pc = "send" /\ tasks'[t] # tasks[t])
              => /\ tasks'[t].pc \in {"done", "cancelling"}
                 /\ ACTIVE_ALARM_TASKS'[tasks[t].alert] = None
         /\ (tasks'[t].kind = "alert_rsi" /\ tasks'[t].pc = "send")
              => \A u \in TaskIds :
                    tasks'[u].alert = tasks'[t].alert => tasks'[u].pc \notin {"new", "sleep"}
         /\ (tasks'[t].kind = "alert_rsi" /\ tasks'[t].ended = "fired")
              => \A u \in TaskIds :
                    tasks'[u].alert = tasks'[t].alert => tasks'[u].pc = "done"]_vars

\* An indicator monitor has triggered, delivered and ended: its alert is inactive
\* and has no registry entry.
C11_Witness ==
    \E t \in TaskIds :
        /\ tasks[t].kind = "alert_rsi"
        /\ tasks[t].ended = "fired"
        /\ ~alerts[tasks[t].alert].is_active
        /\ ACTIVE_ALARM_TASKS[tasks[t].alert] = None
        /\ chat # {}

\* C12: a monitor that waits for the edit or the send of a trigger message only
\* leaves that wait by the delivery completing (with its store update) or
\* failing, never by a stop call: a stop during the wait lets the delivery finish.
C12_StopLetsDeliveryComplete ==
    [][\A t \in TaskIds :
         (tasks[t].pc \in {"edit", "send"} /\ tasks'[t] # tasks[t])
         => \E o \in {"ok", "not_found", "error"} : EditDone(t, o) \/ SendDone(t, o)]_vars

\* C13: the delete handler stops the alert's task and marks the alert inactive in
\* one uninterrupted run: after the step the alert has no registry entry, the
\* task that was registered is cancelled, and when the alert was there to delete
\* it is inactive.
C13_DeleteStopsThenDeactivates ==
    [][\A a \in AlertIds :
         DeleteConfirmation(a)
         => /\ ACTIVE_ALARM_TASKS'[a] = None
            /\ ACTIVE_ALARM_TASKS[a] # None
                  => tasks'[ACTIVE_ALARM_TASKS[a]].pc \in {"done", "cancelling"}
            /\ alerts[a].is_active => ~alerts'[a].is_active]_vars

\* An active alert with a running task has been deleted.
C13_Witness ==
    \E t \in TaskIds :
        /\ tasks[t].ended = "cancelled"
        /\ ~alerts[tasks[t].alert].is_active
        /\ ACTIVE_ALARM_TASKS[tasks[t].alert] = None
        /\ tasks[t].kind = "alert_price"

\* C14: a cycle that starts when the alert is inactive in the store evaluates
\* nothing and delivers nothing: the task ends, the alert's registry entry is
\* removed, and neither the chat nor the store changes; and with fair scheduling
\* a task whose alert is inactive eventually ends.
C14_InactiveAlertStopsTask ==
    /\ [][\A t \in TaskIds :
            ( /\ PriceCycle(t) \/ \E r \in RsiValues \cup {None} : RsiCycle(t, r)
              /\ ~alerts[tasks[t].alert].is_active )
            => /\ tasks'[t].pc = "done"
               /\ tasks'[t].ended = "inactive"
               /\ ACTIVE_ALARM_TASKS'[tasks[t].alert] = None
               /\ chat' = chat
               /\ alerts' = alerts]_vars
    /\ \A t \in TaskIds :
          (Running(t) /\ ~alerts[tasks[t].alert].is_active) ~> (tasks[t].pc = "done")

\* A price monitor has ended because it found its alert inactive in the store.
C14_Witness ==
    \E t \in TaskIds :
        /\ tasks[t].kind = "alert_price"
        /\ tasks[t].ended = "inactive"
        /\ ~alerts[tasks[t].alert].is_active
        /\ ACTIVE_ALARM_TASKS[tasks[t].alert] = None

\* C15: every evaluation cycle of an active alert tests the value it reads
\* against the threshold the store holds when the cycle starts: a price monitor
\* triggers exactly on a crossing of the stored price, an indicator monitor
\* exactly when the value is past the stored threshold on the stored side.
C15_CycleUsesStoredThreshold ==
    [][\A t \in TaskIds :
         /\ ( /\ PriceCycle(t)
              /\ alerts[tasks[t].alert].is_active
              /\ LATEST_PRICES[alerts[tasks[t].alert].pair] # None
              /\ tasks[t].observed # None )
              => (Triggers(t) <=>
                    Straddles(tasks[t].observed, alerts[tasks[t].alert].price,
                              LATEST_PRICES[alerts[tasks[t].alert].pair]))
         /\ \A r \in RsiValues :
              (RsiCycle(t, r) /\ alerts[tasks[t].alert].is_active)
              => (Triggers(t) <=>
                    RsiTriggered(alerts[tasks[t].alert].rsi_condition, r,
                                 alerts[tasks[t].alert].price))]_vars

\* C16: under the system's flows every task that can evaluate or deliver is the
\* one registered for its alert, so the evaluations, deliveries and store
\* updates of one alert are those of a single task, one after the other.
C16_SequentialPerAlert ==
    \A t \in TaskIds :
        tasks[t].pc \in {"new", "sleep", "edit", "send"}
           => /\ ACTIVE_ALARM_TASKS[tasks[t].alert] = t
              /\ \A u \in TaskIds \ {t} :
                    tasks[u].alert = tasks[t].alert
                       => tasks[u].pc \in {"done", "cancelling"}

\* An alert has been restarted by an update: its first task was cancelled and its
\* second one is delivering a trigger.
C16_Witness ==
    \E t, u \in TaskIds :
        /\ tasks[t].alert = tasks[u].alert
        /\ tasks[t].ended = "cancelled"
        /\ tasks[u].pc \in {"edit", "send"}
        /\ ACTIVE_ALARM_TASKS[tasks[u].alert] = u

\* C17: every connection error and every close clears the connection handle and
\* puts the client in its pause; a client without a handle is pausing or
\* connecting; the pause leads to a new connection attempt however many
\* attempts in a row have failed, so a disconnected client always attempts to
\* connect again.
C17_ReconnectsForever ==
    /\ [][ (ClientConnectFails \/ ClientClosed \/ \E p \in Pairs : ClientReplay(p, FALSE))
           => (~websocket' /\ client'.pc = "backoff") ]_vars
    /\ [][ client.pc = "backoff" => client'.pc \in {"backoff", "connecting"} ]_vars
    /\ [](~websocket => client.pc \in {"backoff", "connecting"})
    /\ (~websocket ~> client.pc = "connecting")

\* The client attempts to connect after MaxFail or more failed attempts in a row.
C17_Witness ==
    client.pc = "connecting" /\ client.failures = MaxFail /\ ~websocket

\* C18: on connection the client takes every pair of the subscription set for
\* replay, each replay step sends the subscribe request of its pair, and the
\* client reads, updates the cache or answers a ping only when all the pairs
\* that were in the set on connection have been requested on that connection.
C18_ReplayBeforeReading ==
    /\ [][ ClientConnected
           => (client'.replay = subscriptions /\ client'.requested = {}) ]_vars
    /\ [][ \A p \in Pairs : ClientReplay(p, TRUE)
           => (client'.last_sent = SubscribeMessage(p) /\ p \in client'.requested) ]_vars
    /\ [][ (LATEST_PRICES' # LATEST_PRICES \/ client'.last_sent.op = "pong")
           => (client.pc = "reading" /\ client.snapshot \subseteq client.requested) ]_vars
    /\ [](client.pc = "reading" => client.snapshot \subseteq client.requested)

\* The client reads after it replayed both pairs on this connection.
C18_Witness ==
    /\ client.pc = "reading"
    /\ client.snapshot = Pairs
    /\ client.requested = Pairs
    /\ websocket

\* C19: starting a price alert, like a direct add_subscription, registers the
\* pair. Without a connection the pair joins the set and nothing is sent or
\* queued, and the next connection replays it; with a connection a request for a
\* new pair is queued and sent on that connection when its turn comes; a pair
\* that is in the set already changes nothing; a registered pair is in the set
\* or on its way there, and it gets there.
C19_StartRegistersPair ==
    /\ [][ \A p \in Pairs :
             ( \/ AddSubscriptionCall(p)
               \/ \E a \in AlertIds : /\ StartCall(a)
                                      /\ alerts[a].alert_type = "alert_price"
                                      /\ alerts[a].pair = p )
             => /\ ~websocket => /\ subscriptions' = subscriptions \cup {p}
                                 /\ subscribe_tasks' = subscribe_tasks
                                 /\ client' = client
                /\ (websocket /\ p \notin subscriptions)
                      => (p \in subscribe_tasks' /\ client' = client)
                /\ p \in subscriptions
                      => UNCHANGED << subscriptions, subscribe_tasks, client, websocket >>
                /\ p \in subscriptions' \cup subscribe_tasks' ]_vars
    /\ [][ \A p \in Pairs : (ClientSubscribeTask(p, TRUE) /\ websocket)
             => /\ client'.last_sent = SubscribeMessage(p)
                /\ p \in client'.requested
                /\ p \in subscriptions' ]_vars
    /\ [][ ClientConnected => subscriptions \subseteq client'.replay ]_vars
    /\ \A p \in Pairs : (p \in subscribe_tasks ~> p \in subscriptions)

\* A price alert was started without a connection: its pair is in the set, no
\* request has been sent or queued, and no connection has been made yet.
C19_Witness ==
    /\ \E t \in TaskIds : Running(t) /\ tasks[t].kind = "alert_price"
    /\ "BTCUSDT" \in subscriptions
    /\ subscribe_tasks = {}
    /\ ~websocket
    /\ client = NewClient

\* C20: a message that carries a ping is answered in the step that reads it
\* with a pong of the ping's value, the price cache is left as it was, and the
\* client goes on reading.
C20_PingAnswered ==
    [][ \A msg \in Pings :
          (client.pc = "reading" /\ ClientRead(msg, TRUE))
          => /\ client'.last_sent = [op |-> "pong", pair |-> "", pong |-> msg.ping]
             /\ LATEST_PRICES' = LATEST_PRICES
             /\ client'.pc = "reading"
             /\ websocket' ]_vars

\* The client answered the largest ping while the cache held a price.
C20_Witness ==
    /\ client.pc = "reading"
    /\ client.last_sent = [op |-> "pong", pair |-> "", pong |-> MaxPing]
    /\ LATEST_PRICES["BTCUSDT"] = MaxPrice

\* The messages the handler skips: a text that is not JSON, and a table whose
\* ticker entry has no symbol or no price.
Malformed ==
    { Message(FALSE, None, "none", "none", "", None, FALSE) }
    \cup { msg \in { Message(TRUE, None, "none", "tickers", symbol, lastPrice, FALSE) :
                      symbol \in Pairs \cup {""}, lastPrice \in Prices \cup {None} } :
             msg.symbol = "" \/ msg.lastPrice = None }

\* C21: reading a message that cannot be decoded, or a ticker entry without a
\* symbol or without a price, changes nothing: the connection handle stays set,
\* the price cache and the subscription set are as before, and the client is
\* reading, ready for the next message.
C21_MalformedSkipped ==
    [][ \A msg \in Malformed :
          (client.pc = "reading" /\ ClientRead(msg, TRUE))
          => /\ LATEST_PRICES' = LATEST_PRICES
             /\ subscriptions' = subscriptions
             /\ websocket /\ websocket'
             /\ client' = client
             /\ client'.pc = "reading" ]_vars

\* The client reads on a connection with a requested pair whose price is
\* cached: a ticker entry of that pair without a price can arrive.
C21_Witness ==
    /\ client.pc = "reading"
    /\ websocket
    /\ \E p \in client.requested : LATEST_PRICES[p] = MaxPrice

\* The messages whose handling ends in "except Exception".
Unreadable == { msg \in Messages : Raises(msg) }

\* C22: an error raised while a message is handled (an entry the handler cannot
\* read, a pong whose send fails) takes the client to the pause with the
\* connection handle cleared, and the client never leaves its loop.
C22_HandlerErrorForcesReconnect ==
    /\ [][ \A msg \in Unreadable :
             (client.pc = "reading" /\ ClientRead(msg, TRUE))
             => (~websocket' /\ client'.pc = "backoff") ]_vars
    /\ [][ \A msg \in Pings :
             (client.pc = "reading" /\ ClientRead(msg, FALSE))
             => (~websocket' /\ client'.pc = "backoff") ]_vars
    /\ [](client.pc \in {"connecting", "replay", "reading", "backoff"})

\* C23: when a monitor task stops itself after an error of its delivery, the
\* registry entry and the store record of every other alert, and every task of
\* another alert, are as they were before the step.
C23_FailureStaysInItsAlert ==
    [][ \A t \in TaskIds :
          ( /\ tasks[t].pc \in {"edit", "send"}
            /\ (EditDone(t, "error") \/ SendDone(t, "error")) )
          => \A b \in AlertIds \ {tasks[t].alert} :
                /\ ACTIVE_ALARM_TASKS'[b] = ACTIVE_ALARM_TASKS[b]
                /\ alerts'[b] = alerts[b]
                /\ \A u \in TaskIds : tasks[u].alert = b => tasks'[u] = tasks[u] ]_vars

\* A task ended on an error while the task of another alert is registered and
\* running.
C23_Witness ==
    \E t \in TaskIds : \E u \in TaskIds :
        /\ tasks[t].ended = "error"
        /\ Running(u)
        /\ tasks[u].alert # tasks[t].alert
        /\ ACTIVE_ALARM_TASKS[tasks[u].alert] = u

\* C24: a transport error is not fatal to a monitor. When the fetch gives up
\* after its failed attempts (no value for the cycle), and when the delivery of
\* a notification of an alert that is still active fails, the task is still the
\* registered task of its alert and is still running, so it evaluates again.
C24_TransientErrorNotFatal ==
    /\ [][ \A t \in TaskIds :
             ( /\ tasks[t].pc \in {"new", "sleep"}
               /\ RsiCycle(t, None)
               /\ ~NoLongerActive(tasks[t].alert) )
             => /\ tasks'[t].pc = "sleep"
                /\ ACTIVE_ALARM_TASKS'[tasks[t].alert] = ACTIVE_ALARM_TASKS[tasks[t].alert] ]_vars
    /\ [][ \A t \in TaskIds :
             ( /\ tasks[t].pc \in {"edit", "send"}
               /\ (EditDone(t, "error") \/ SendDone(t, "error"))
               /\ alerts[tasks[t].alert].is_active )
             => /\ tasks'[t].pc \in {"new", "sleep", "edit", "send"}
                /\ ACTIVE_ALARM_TASKS'[tasks[t].alert] = ACTIVE_ALARM_TASKS[tasks[t].alert] ]_vars

\* The responses with a data error: no candle at all, a candle without its
\* closing price, or a closing price that is not a number.
DataErrors ==
    { r \in Responses :
        r = << >> \/ \E i \in 1..Len(r) : r[i] \in {ShortCandle, BadCandle} }

\* C25: a response with a data error makes the indicator monitor skip the
\* cycle: it does not trigger, the store is as before, and the task is still
\* registered and waits for its next cycle.
C25_DataErrorSkipsCycle ==
    [][ \A t \in TaskIds : \A response \in DataErrors :
          ( /\ tasks[t].pc \in {"new", "sleep"}
            /\ RsiFetchCycle(t, 0, response)
            /\ ~NoLongerActive(tasks[t].alert) )
          => /\ tasks'[t].pc = "sleep"
             /\ alerts' = alerts
             /\ ACTIVE_ALARM_TASKS' = ACTIVE_ALARM_TASKS ]_vars

\* C26: of the closing prices a cycle fetched, calculate_rsi makes no value when
\* they are fewer than the period and a definite value (a number, not NaN) when
\* they are at least the period; a cycle without a value does not trigger.
C26_IndeterminateBelowPeriod ==
    \A t \in TaskIds :
        LET f == tasks[t].fetched
        IN  (f.status = "list" /\ f.prices # << >>)
            => /\ Len(f.prices) < RsiPeriod => f.rsi = None
               /\ Len(f.prices) >= RsiPeriod => f.rsi \notin {None, NaN}
               /\ f.rsi = None => tasks[t].pc # "send"

C28_MissingPriceIsNoData ==
    [][ \A t \in TaskIds :
          ( /\ tasks[t].pc \in {"new", "sleep"}
            /\ PriceCycle(t)
            /\ alerts[tasks[t].alert].is_active
            /\ LATEST_PRICES[alerts[tasks[t].alert].pair] = None )
          => /\ tasks'[t].pc = "sleep"
             /\ tasks'[t].last_price = None
             /\ tasks'[t].observed = None
             /\ ACTIVE_ALARM_TASKS' = ACTIVE_ALARM_TASKS
             /\ alerts' = alerts ]_vars

\* A price monitor has run a cycle while the cache had no price of its pair.
C28_Witness ==
    \E t \in TaskIds :
        /\ tasks[t].kind = "alert_price"
        /\ tasks[t].pc = "sleep"
        /\ tasks[t].last_price = None
        /\ LATEST_PRICES[alerts[tasks[t].alert].pair] = None
        /\ ACTIVE_ALARM_TASKS[tasks[t].alert] = t

\* C29: while the cache entry of a pair is not updated no price alert on the pair
\* triggers: a cycle of a monitor that has already observed a price, and finds in
\* the cache the price it observed last, does not trigger, whatever target the
\* store holds at that cycle, and keeps that price as its previous one.
C29_OutageFiresNothing ==
    [][ \A t \in TaskIds :
          ( /\ tasks[t].pc = "sleep"
            /\ PriceCycle(t)
            /\ alerts[tasks[t].alert].is_active
            /\ tasks[t].observed # None
            /\ LATEST_PRICES[alerts[tasks[t].alert].pair] = tasks[t].observed )
          => /\ ~Triggers(t)
             /\ tasks'[t].pc = "sleep"
             /\ tasks'[t].last_price = tasks[t].observed
             /\ alerts' = alerts ]_vars

\* A monitor sleeps after a cycle that observed the price the cache still holds,
\* and the target in the store has since been changed to that very price.
C29_Witness ==
    \E t \in TaskIds :
        /\ tasks[t].kind = "alert_price"
        /\ tasks[t].pc = "sleep"
        /\ tasks[t].observed = MaxPrice
        /\ tasks[t].last_price = MaxPrice
        /\ LATEST_PRICES[alerts[tasks[t].alert].pair] = MaxPrice
        /\ alerts[tasks[t].alert].is_active
        /\ alerts[tasks[t].alert].trigger_count < MaxTrig
        /\ tasks[t].target_price # None
        /\ tasks[t].target_price < MaxPrice
        /\ alerts[tasks[t].alert].price = MaxPrice

\* The cache of the pair of alert a has moved, since the sleeping monitor t of a
\* observed it, from one side of the target to the target or past it: two
\* consecutive prices written in between straddle the target.
CrossedSinceObserved(t, a, target) ==
    /\ tasks[t].alert = a
    /\ tasks[t].kind = "alert_price"
    /\ tasks[t].pc = "sleep"
    /\ ACTIVE_ALARM_TASKS[a] = t
    /\ alerts[a].is_active
    /\ alerts[a].price = target
    /\ alerts[a].trigger_count < MaxTrig
    /\ tasks[t].observed # None
    /\ LATEST_PRICES[alerts[a].pair] # None
    /\ Straddles(tasks[t].observed, target, LATEST_PRICES[alerts[a].pair])

\* C30: whenever two consecutive prices written to the cache of a pair straddle
\* the target of an active, running price alert on the pair, the alert eventually
\* triggers (its monitor starts the delivery of the notification), even if the
\* price moves back before the next cycle, unless the alert is deactivated or
\* deleted, its monitor is stopped, or its target is changed first.
C30_EveryCrossingNotified ==
    \A t \in TaskIds : \A a \in AlertIds : \A target \in Targets :
        CrossedSinceObserved(t, a, target)
          ~> \/ tasks[t].alert = a /\ tasks[t].pc \in {"edit", "send"}
             \/ ~alerts[a].is_active
             \/ alerts[a].price # target
             \/ ACTIVE_ALARM_TASKS[a] # t

\* The monitor task of alert a is registered and running.
RegisteredAndRunning(a) ==
    /\ ACTIVE_ALARM_TASKS[a] # None
    /\ tasks[ACTIVE_ALARM_TASKS[a]].alert = a
    /\ Running(ACTIVE_ALARM_TASKS[a])

\* C31: every alert the creation flow persists is handed to the supervisor in
\* the same handler invocation: when save_alert_handler returns after the store
\* has saved the alert, a monitor task for the new alert id is registered and
\* running.
C31_SavedAlertRunsAtReturn ==
    [][ save_alert_handler_returns
          => RegisteredAndRunning(conversation.handler.alert) ]_vars

\* C31 as amended: save_alert_handler registers and starts a monitor task for the
\* new alert id in the step that saves the alert, before its first suspension;
\* when the handler returns, that task is registered and running unless it has
\* stopped itself in the meantime, after the delivery of an indicator trigger or
\* on an error, and then nothing is registered under the id.
C31_SavedAlertHandedOver ==
    /\ [][ \A u \in Users :
             ( /\ conversation.handler = NoHandler
               /\ save_alert_handler(u) )
             => LET a == NextAlertId(alerts)
                IN  /\ alerts'[a] = NewRow(u, conversation.user_data[u])
                    /\ ACTIVE_ALARM_TASKS[a] = None
                    /\ ACTIVE_ALARM_TASKS'[a] # None
                    /\ tasks[ACTIVE_ALARM_TASKS'[a]].pc = "free"
                    /\ tasks'[ACTIVE_ALARM_TASKS'[a]].alert = a
                    /\ tasks'[ACTIVE_ALARM_TASKS'[a]].kind = alerts'[a].alert_type
                    /\ tasks'[ACTIVE_ALARM_TASKS'[a]].pc = "new"
                    /\ conversation'.handler.alert = a ]_vars
    /\ [][ save_alert_handler_returns
             => LET a == conversation.handler.alert
                IN  \/ RegisteredAndRunning(a)
                    \/ /\ ACTIVE_ALARM_TASKS[a] = None
                       /\ \E t \in TaskIds :
                            /\ tasks[t].alert = a
                            /\ tasks[t].pc = "done"
                            /\ tasks[t].ended \in {"fired", "error"} ]_vars

\* save_alert_handler has not returned yet and the indicator monitor it started
\* has already triggered, delivered and stopped itself.
C31_Witness ==
    /\ conversation.handler.name = "save_alert_handler"
    /\ ACTIVE_ALARM_TASKS[conversation.handler.alert] = None
    /\ \E t \in TaskIds :
         /\ tasks[t].alert = conversation.handler.alert
         /\ tasks[t].pc = "done"
         /\ tasks[t].ended = "fired"

\* C32: for an indicator alert created through the creation flow with threshold
\* T entered by the user, the threshold the running monitor compares the
\* computed value with is T.
C32_MonitorUsesConfiguredThreshold ==
    \A t \in TaskIds :
        ( /\ tasks[t].kind = "alert_rsi"
          /\ Running(t)
          /\ alerts[tasks[t].alert].rsi_threshold # None )
        => tasks[t].rsi_threshold = alerts[tasks[t].alert].rsi_threshold

\* The alert a of the table is soft-deleted: stored and not active.
SoftDeleted(tbl, a) == tbl[a] # AbsentRow /\ ~tbl[a].is_active

\* C33: a soft-deleted alert is never returned by get_alert_by_id, get_user_alerts
\* or get_alert_count, yet its row remains stored: restore_user_alert after
\* delete_user_alert makes the same alert visible again with all its other
\* fields unchanged, and deleting an alert that is already inactive or belongs
\* to another user reports failure and changes nothing.
C33_SoftDeleteHidesAndRestores ==
    \A u \in Users : \A a \in AlertIds :
        LET deleted == delete_user_alert(alerts, u, a)
            restored == restore_user_alert(deleted.alerts, u, a)
            mine == { b \in AlertIds : /\ alerts[b] # AbsentRow
                                       /\ alerts[b].user_id = u
                                       /\ alerts[b].is_active }
        IN  /\ SoftDeleted(alerts, a)
                 => /\ get_alert_by_id(alerts, u, a) = AbsentRow
                    /\ a \notin get_user_alerts(alerts, u)
            /\ get_user_alerts(alerts, u) = mine
            /\ get_alert_count(alerts, u) = Cardinality(mine)
            /\ a \in mine
                 => /\ get_alert_by_id(alerts, u, a) = alerts[a]
                    /\ deleted.success
                    /\ SoftDeleted(deleted.alerts, a)
                    /\ \A b \in AlertIds \ {a} : deleted.alerts[b] = alerts[b]
                    /\ get_alert_by_id(deleted.alerts, u, a) = AbsentRow
                    /\ a \notin get_user_alerts(deleted.alerts, u)
                    /\ get_alert_count(deleted.alerts, u) = Cardinality(mine) - 1
                    /\ restored.success
                    /\ restored.alerts = alerts
            /\ a \notin mine
                 => /\ ~deleted.success
                    /\ deleted.alerts = alerts

\* A user's alert that has triggered has been soft-deleted: its row is stored
\* with its fields and no query of its owner returns it, while an alert of another
\* user is active.
C33_Witness ==
    \E a \in AlertIds : \E b \in AlertIds :
        /\ SoftDeleted(alerts, a)
        /\ alerts[a].user_id = 1
        /\ alerts[a].trigger_count = 1
        /\ alerts[a].last_message_id = 1
        /\ get_alert_by_id(alerts, 1, a) = AbsentRow
        /\ alerts[b].is_active
        /\ alerts[b].user_id = 2

\* The tasks of alert a that can still take a step.
RunningFor(a) == { t \in TaskIds : tasks[t].alert = a /\ Running(t) }

\* C34: in the alert update flow (store field updated, then stop, then start
\* with the re-read alert), once the handler returns exactly one monitor task is
\* registered and running for the alert, it evaluates with the updated
\* parameters, and the task that ran before the update performs no further
\* evaluation or delivery.
C34_UpdatedAlertRunsAtReturn ==
    /\ [][ update_get_value_handler_returns
             => LET a == conversation.handler.alert
                IN  /\ RegisteredAndRunning(a)
                    /\ RunningFor(a) = {ACTIVE_ALARM_TASKS[a]} ]_vars
    /\ [][ \A a \in AlertIds : \A v \in Targets :
             update_get_value_handler(a, v)
             => LET new == ACTIVE_ALARM_TASKS'[a]
                IN  /\ alerts'[a].price = v
                    /\ new # None
                    /\ tasks[new].pc = "free"
                    /\ tasks'[new].pc = "new"
                    /\ tasks'[new].alert = a
                    /\ tasks'[new].kind = alerts'[a].alert_type
                    /\ \A t \in TaskIds \ {new} :
                          tasks'[t].alert = a
                             => tasks'[t].pc \in {"done", "cancelling"} ]_vars
    /\ [][ \A t \in TaskIds :
             tasks[t].pc \in {"done", "cancelling"}
                => /\ tasks'[t].pc \in {"done", "cancelling"}
                   /\ ~PriceCycle(t)
                   /\ \A o \in {"ok", "not_found", "error"} : ~EditDone(t, o)
                   /\ \A o \in {"ok", "error"} : ~SendDone(t, o) ]_vars
    /\ [][ \A t \in TaskIds :
             ( /\ tasks[t].alert # None
               /\ Running(t)
               /\ PriceCycle(t)
               /\ tasks'[t].target_price # None )
             => tasks'[t].target_price = alerts[tasks[t].alert].price ]_vars

\* Task t ends by stopping itself in this step.
StopsItself(t) ==
    /\ Running(t)
    /\ tasks'[t].pc = "done"
    /\ tasks'[t].ended \in {"inactive", "fired", "error"}

\* C35: when a monitor task stops itself (alert found inactive, one-shot trigger,
\* or unexpected error), the only registry entry it removes and the only task it
\* cancels is its own; it never removes or cancels a different task that is
\* registered under the same alert id.
C35_SelfStopOnlyOwnEntry ==
    [][ \A t \in TaskIds :
          StopsItself(t)
          => /\ \A a \in AlertIds :
                  ACTIVE_ALARM_TASKS[a] \notin {None, t}
                     => ACTIVE_ALARM_TASKS'[a] = ACTIVE_ALARM_TASKS[a]
             /\ \A u \in TaskIds \ {t} : tasks'[u] = tasks[u] ]_vars

\* C36: an indicator (RSI) alert is deactivated by its own monitor only together
\* with a delivered notification: when the send of its trigger message ends,
\* either the message has reached the chat or the alert is active in the store
\* (a failed send does not leave the alert disarmed).
C36_DisarmedOnlyWithDelivery ==
    [][ \A t \in TaskIds : \A o \in {"ok", "error"} :
          ( /\ tasks[t].kind = "alert_rsi"
            /\ tasks[t].pc = "send"
            /\ SendDone(t, o) )
          => \/ chat' # chat
             \/ alerts'[tasks[t].alert].is_active ]_vars

\* C37: a delete request for an alert id that the requesting user does not own
\* has no effect on that alert: its store record stays active and its monitor
\* task stays registered and running.
C37_ForeignDeleteNoEffect ==
    [][ \A u \in Users : \A a \in AlertIds :
          ( /\ delete_confirmation_handler(u, a)
            /\ alerts[a] # AbsentRow
            /\ alerts[a].user_id # u
            /\ alerts[a].is_active )
          => /\ alerts'[a] = alerts[a]
             /\ ACTIVE_ALARM_TASKS'[a] = ACTIVE_ALARM_TASKS[a]
             /\ ACTIVE_ALARM_TASKS[a] # None
                   => tasks'[ACTIVE_ALARM_TASKS[a]] = tasks[ACTIVE_ALARM_TASKS[a]] ]_vars

\* C38: a user who is not in ALLOWED_USERS can never get an alert persisted or a
\* monitor task started: no row of the store and no task belongs to such a
\* user, whatever path through the entry points (/start, /new_alarm,
\* /list_alarms) was taken.
C38_OnlyAllowedUsersPersist ==
    /\ \A a \in AlertIds :
          alerts[a] # AbsentRow => alerts[a].user_id \in ALLOWED_USERS
    /\ \A t \in TaskIds :
          tasks[t].alert # None => alerts[tasks[t].alert].user_id \in ALLOWED_USERS

\* The exceptions that are network errors for a wrapper: a RequestException,
\* and for a coroutine also a telegram NetworkError.
IsNetworkError(wrapper, outcome) ==
    \/ outcome = "RequestException"
    \/ wrapper = "async_wrapper" /\ outcome = "NetworkError"

RECURSIVE Doubled(_, _)
Doubled(initial, n) == IF n = 0 THEN initial ELSE 2 * Doubled(initial, n - 1)

C39_CallIsBounded ==
    /\ retry.calls <= retry.max_retries
    /\ \A i \in 1..Len(retry.slept) :
          retry.slept[i] = Doubled(retry.initial_delay, i - 1)
    /\ retry.pc = "call" => Len(retry.slept) = retry.calls
    /\ retry.pc \in {"sleep", "done"} /\ retry.calls > 0
          => Len(retry.slept) = retry.calls - 1
    /\ retry.pc = "sleep" => IsNetworkError(retry.wrapper, retry.last)
    /\ retry.last = "returns" => retry.pc = "done" /\ retry.result = "value"
    /\ retry.result = "value" => retry.last = "returns"
    /\ ( /\ retry.pc = "done"
         /\ retry.calls > 0 => IsNetworkError(retry.wrapper, retry.last) )
          => retry.result = "None" /\ retry.calls = retry.max_retries
    /\ ( /\ retry.last \notin {"none", "returns"}
         /\ ~IsNetworkError(retry.wrapper, retry.last) )
          => retry.pc = "done" /\ retry.result = "raised"

====
